---- MODULE Spec2Model ----
(***************************************************************************)
(* Synapse: the multi-agent response pipeline (agent_orchestrator.py, the  *)
(* planner, executor and evaluator agents, the memory agent's bounded      *)
(* arrays) as a state machine.  The backend's Python files are described   *)
(* by docs/PROJECT_TECHNICAL_GUIDE.md, whose code excerpts are what the    *)
(* definitions below translate.                                            *)
(***************************************************************************)
EXTENDS Integers, Sequences, FiniteSets, TLC

(***************************************************************************)
(* Bounds of the model.                                                    *)
(***************************************************************************)
\* requests (turns) of the one user, which may overlap
MaxReq == 2
\* appends made by the store-level specification beyond the caps
MaxEvalAppends == 22
MaxDateAppends == 102
\* total_interactions the user already has when the first request arrives
InitInteractions == 3

Reqs == 1..MaxReq

(***************************************************************************)
(* Program constants.                                                      *)
(***************************************************************************)
\* "$slice": -20 on the evaluation_history push
EVAL_HISTORY_CAP == 20
\* "$slice": -100 on the session_dates push
SESSION_DATES_CAP == 100
\* update_learner_traits() runs every 5 interactions
TRAIT_PERIOD == 5

None == "none"

(***************************************************************************)
(* Text.  A message is a sequence of characters, so that lower() and the   *)
(* substring test `m in user_message.lower()` are computed, not assumed.   *)
(***************************************************************************)
UpperAlpha == <<"A","B","C","D","E","F","G","H","I","J","K","L","M","N","O","P","Q","R","S","T","U","V","W","X","Y","Z">>
LowerAlpha == <<"a","b","c","d","e","f","g","h","i","j","k","l","m","n","o","p","q","r","s","t","u","v","w","x","y","z">>

LowerChar(c) ==
    IF \E i \in 1..Len(UpperAlpha) : UpperAlpha[i] = c
    THEN LowerAlpha[CHOOSE i \in 1..Len(UpperAlpha) : UpperAlpha[i] = c]
    ELSE c

\* str.lower()
Lower(s) == [i \in 1..Len(s) |-> LowerChar(s[i])]

\* `m in s` on Python strings: m is a contiguous substring of s
Contains(s, m) ==
    \E i \in 1..(Len(s) - Len(m) + 1) : SubSeq(s, i, i + Len(m) - 1) = m

explicit_confusion_markers ==
    { <<"d","o","n","'","t"," ","g","e","t"," ","i","t">>,
      <<"d","o","n","t"," ","g","e","t"," ","i","t">>,
      <<"d","o","n","'","t"," ","u","n","d","e","r","s","t","a","n","d">>,
      <<"d","o","n","t"," ","u","n","d","e","r","s","t","a","n","d">>,
      <<"i","m"," ","c","o","n","f","u","s","e","d">>,
      <<"i","'","m"," ","c","o","n","f","u","s","e","d">>,
      <<"d","o","e","s","n","'","t"," ","m","a","k","e"," ","s","e","n","s","e">>,
      <<"d","o","e","s","n","t"," ","m","a","k","e"," ","s","e","n","s","e">>,
      <<"s","t","i","l","l"," ","u","n","c","l","e","a","r">>,
      <<"l","o","s","t">>,
      <<"w","h","a","t"," ","d","o"," ","y","o","u"," ","m","e","a","n">> }

\* is_explicitly_confused = any(m in user_message.lower() for m in markers)
is_explicitly_confused(user_message) ==
    \E m \in explicit_confusion_markers : Contains(Lower(user_message), m)

\* "I don't understand this at all"
MsgConfused ==
    <<"I"," ","d","o","n","'","t"," ","u","n","d","e","r","s","t","a","n","d"," ","t","h","i","s"," ","a","t"," ","a","l","l">>
\* "Oh I see, so it's like X because Y"
MsgProgress ==
    <<"O","h"," ","I"," ","s","e","e",","," ","s","o"," ","i","t","'","s"," ","l","i","k","e"," ","X"," ","b","e","c","a","u","s","e"," ","Y">>
\* "I'M CONFUSED"
MsgShout ==
    <<"I","'","M"," ","C","O","N","F","U","S","E","D">>

\* The user messages the requests draw from; a request holds the index.
Messages == << MsgConfused, MsgProgress, MsgShout >>
MsgIds == 1..Len(Messages)

\* is_explicitly_confused of each message, computed once
Confused == [m \in MsgIds |-> is_explicitly_confused(Messages[m])]


(***************************************************************************)
(* Language Model Gateway.  A call either returns an output (any value of  *)
(* the sets below: the model is not trusted to obey its prompt) or fails   *)
(* (error, timeout, unparseable output).                                   *)
(***************************************************************************)
GwFail == [ok |-> FALSE]
GwOk(x) == [ok |-> TRUE, out |-> x]
GwOutcomes(S) == { GwOk(x) : x \in S } \cup {GwFail}

\* the strategies the planner's JSON may carry
GatewayStrategies ==
    { [strategy |-> "teach", tone |-> "encouraging", verbosity |-> "brief",
       pacing |-> "slow", should_ask_question |-> TRUE],
      [strategy |-> "explore", tone |-> "curious", verbosity |-> "normal",
       pacing |-> "normal", should_ask_question |-> TRUE],
      [strategy |-> "challenge", tone |-> "direct", verbosity |-> "detailed",
       pacing |-> "accelerated", should_ask_question |-> FALSE] }

\* a reply text is its sequence of lines
TextOfLines(n) == [i \in 1..n |-> "line"]
GatewayLineCounts == {3, 9}
GatewayTexts == { TextOfLines(n) : n \in GatewayLineCounts }


\* the evaluator's structured output: an optimistic reading, a pessimistic
\* one, and one that lowers the score while calling it progress
GatewayEvals ==
    { [clarity_score |-> 80, understanding_delta |-> 15,
       confusion_trend |-> "improving", struggle_detected |-> None,
       reasoning |-> <<"model reasoning">>],
      [clarity_score |-> 30, understanding_delta |-> -10,
       confusion_trend |-> "worsening", struggle_detected |-> "recursion",
       reasoning |-> <<"model reasoning">>],
      [clarity_score |-> 30, understanding_delta |-> 15,
       confusion_trend |-> "improving", struggle_detected |-> None,
       reasoning |-> <<"model reasoning">>] }

(***************************************************************************)
(* Planner agent.                                                          *)
(***************************************************************************)
\* _default_strategy(): a supportive, warm strategy
_default_strategy ==
    [strategy |-> "support", tone |-> "warm", verbosity |-> "normal",
     pacing |-> "normal", should_ask_question |-> FALSE]

\* The Planner falling back to a strategy that is not the default one: a
\* failed call yields verbosity "brief".
plan_response_brief_default(gateway) ==
    IF gateway.ok THEN gateway.out
    ELSE [_default_strategy EXCEPT !.verbosity = "brief"]

\* plan_response(user_context, message): the Gateway's JSON, or the default
plan_response(gateway) ==
    IF gateway.ok THEN gateway.out ELSE _default_strategy

(***************************************************************************)
(* Executor agent.                                                         *)
(***************************************************************************)
\* verbosity: "brief" (4 lines) | "normal" (6) | "detailed" (8)
MaxLines(verbosity) ==
    CASE verbosity = "brief" -> 4
      [] verbosity = "normal" -> 6
      [] verbosity = "detailed" -> 8

\* the graceful fallback of generate_response
FALLBACK_RESPONSE == << "I'm with you. Tell me more about what's on your mind." >>

\* The Generator without its fallback text: a failed call leaves no text.
generate_response_no_fallback(gateway, strategy) ==
    IF gateway.ok THEN gateway.out ELSE <<>>

\* The executor "applies hard rules to the prompt": MaxLines(strategy.verbosity)
\* goes into the prompt, and the text the Gateway returns is the response.
generate_response(gateway, strategy) ==
    IF gateway.ok THEN gateway.out ELSE FALLBACK_RESPONSE

(***************************************************************************)
(* Evaluator agent.                                                        *)
(***************************************************************************)
FAILSAFE_TAG == " [FAILSAFE: Score capped due to explicit confusion]"

\* _default_evaluation(): no change against the previous clarity
_default_evaluation(prev_clarity) ==
    [clarity_score |-> prev_clarity, understanding_delta |-> 0,
     confusion_trend |-> "stable", struggle_detected |-> None,
     reasoning |-> <<"evaluation unavailable.">>]

\* The fail-safe with its second rule left out: a positive delta of the
\* model survives on an explicitly confused turn.
apply_failsafe_no_delta(result, is_confused, prev_clarity) ==
    IF is_confused
    THEN LET r1 == IF result.clarity_score > prev_clarity
                   THEN [result EXCEPT !.clarity_score = prev_clarity,
                                       !.reasoning = Append(@, FAILSAFE_TAG)]
                   ELSE result
             r3 == IF r1.confusion_trend = "improving"
                   THEN [r1 EXCEPT !.confusion_trend = "stable"] ELSE r1
             r4 == IF r3.struggle_detected = None
                   THEN [r3 EXCEPT !.struggle_detected = "explicit confusion"] ELSE r3
         IN  r4
    ELSE result

\* The fail-safe applied to every turn, whether or not a marker matched.
apply_failsafe_always(result, is_confused, prev_clarity) ==
    LET r1 == IF result.clarity_score > prev_clarity
              THEN [result EXCEPT !.clarity_score = prev_clarity,
                                  !.reasoning = Append(@, FAILSAFE_TAG)]
              ELSE result
        r2 == IF r1.understanding_delta > 0
              THEN [r1 EXCEPT !.understanding_delta = 0] ELSE r1
        r3 == IF r2.confusion_trend = "improving"
              THEN [r2 EXCEPT !.confusion_trend = "stable"] ELSE r2
        r4 == IF r3.struggle_detected = None
              THEN [r3 EXCEPT !.struggle_detected = "explicit confusion"] ELSE r3
    IN  r4

\* The fail-safe with its fourth rule left out: an explicitly confused turn
\* may be committed with no struggle recorded.
apply_failsafe_no_struggle(result, is_confused, prev_clarity) ==
    IF is_confused
    THEN LET r1 == IF result.clarity_score > prev_clarity
                   THEN [result EXCEPT !.clarity_score = prev_clarity,
                                       !.reasoning = Append(@, FAILSAFE_TAG)]
                   ELSE result
             r2 == IF r1.understanding_delta > 0
                   THEN [r1 EXCEPT !.understanding_delta = 0] ELSE r1
             r3 == IF r2.confusion_trend = "improving"
                   THEN [r2 EXCEPT !.confusion_trend = "stable"] ELSE r2
         IN  r3
    ELSE result

\* FAIL-SAFE: STRICT LOGIC ENFORCEMENT
apply_failsafe(result, is_confused, prev_clarity) ==
    IF is_confused
    THEN LET \* 1. Block Clarity Increase
             r1 == IF result.clarity_score > prev_clarity
                   THEN [result EXCEPT !.clarity_score = prev_clarity,
                                       !.reasoning = Append(@, FAILSAFE_TAG)]
                   ELSE result
             \* 2. Enforce Non-Positive Delta
             r2 == IF r1.understanding_delta > 0
                   THEN [r1 EXCEPT !.understanding_delta = 0]
                   ELSE r1
             \* 3. Block "Improving" Trend
             r3 == IF r2.confusion_trend = "improving"
                   THEN [r2 EXCEPT !.confusion_trend = "stable"]
                   ELSE r2
             \* 4. Enforce Struggle Detection
             r4 == IF r3.struggle_detected = None
                   THEN [r3 EXCEPT !.struggle_detected = "explicit confusion"]
                   ELSE r3
         IN  r4
    ELSE result

\* evaluate_interaction(message, response, context): the Gateway's output,
\* or the default evaluation, then the fail-safe
evaluate_interaction(gateway, m, prev_clarity) ==
    apply_failsafe(IF gateway.ok THEN gateway.out
                   ELSE _default_evaluation(prev_clarity),
                   Confused[m], prev_clarity)

(***************************************************************************)
(* Memory store: bounded arrays.                                           *)
(***************************************************************************)
\* The push with the slice taken from the wrong end ($slice: cap instead of
\* $slice: -cap): the oldest entries stay, the newest is dropped.
PushSliceHead(arr, x, cap) ==
    LET all == Append(arr, x)
    IN  IF Len(all) > cap THEN SubSeq(all, 1, cap) ELSE all

\* {"$push": {field: {"$each": [x], "$slice": -cap}}}
PushSlice(arr, x, cap) ==
    LET all == Append(arr, x)
    IN  IF Len(all) > cap THEN SubSeq(all, Len(all) - cap + 1, Len(all)) ELSE all


(***************************************************************************)
(* State.                                                                  *)
(***************************************************************************)
VARIABLES
    \* process_message_async, one activation per request
    pc,                 \* where the handler of request r stands
    msg,                \* its user message (index into Messages)
    ctx,                \* user_context, as assembled for it
    strategy,           \* the planner's strategy
    response,           \* the executor's response
    reply,              \* what the handler returned to its caller
    outcome,            \* "pending" | "reply" | "error" | "cancelled"
    cancelled,          \* the enclosing request was cancelled
    \* _run_background_tasks, one task per request
    bgpc,               \* where the background task of request r stands
    evalResult,         \* the evaluation it computed
    bgFailed,           \* it ended by an exception
    bgStarts,           \* how many times it was started
    \* the memory store (chats/messages and the user's user_memory document)
    chatLog,            \* the messages the chat holds
    evaluation_history, \* progress.evaluation_history
    session_dates,      \* progress.session_dates
    total_interactions, \* progress.total_interactions
    struggles,          \* number of struggle updates written
    traits,             \* number of learner-trait recalculations written
    \* history variables of the verification
    trace,              \* per request: its store writes, issued and acknowledged
    gw,                 \* per request and stage: how the handler's Gateway call
                        \* ended (kept until its background task takes a step)
    storeFailed,        \* per request: the store operation that failed
    evalLog,            \* every evaluation ever pushed, with what it was made from
    dateLog             \* every session date ever pushed

VARIABLES
    \* the dashboard (dashboard_service.py)
    total_sessions,     \* progress.effort_metrics.total_sessions
    dashboard           \* the last response of get_dashboard_insights

dashVars == << total_sessions, dashboard >>

VARIABLES
    \* the chat pages and the HTTP endpoints they call, per channel
    netPc,              \* "idle" | "waiting" | "responded"
    httpResp,           \* the last response the endpoint sent: status and body
    shown               \* the assistant texts the page has put on the screen

chatUiVars == << netPc, httpResp, shown >>

VARIABLES
    \* the user_memory document's profile and the writers of the document
    profile,            \* profile: {interests, goals, ...}
    wpc,                \* per writer: "idle" | "read"
    wsnap,              \* per writer: the document as it last read it
    wrote,              \* per writer: how many writes it has made
    writeLog            \* every acknowledged profile write

docVars == << profile, wpc, wsnap, wrote, writeLog >>

VARIABLES
    \* the browser: AuthProvider, the router and the page under the route guard
    route,              \* the current path
    isLoading,          \* AuthProvider.isLoading
    token,              \* AuthProvider.token (isAuthenticated is !!token)
    onboardingComplete, \* AuthProvider.onboardingComplete
    localStorage,       \* the keys stored, of auth_token and auth_user
    is_complete,        \* the backend's answer to GET /api/onboarding/status
    authPc,             \* AuthProvider's mount effect: "mount" | "checking" | "ready"
    view,               \* what the route's element rendered
    effectDue,          \* ProtectedRoute's effect has to run after this render
    hasChecked,         \* OnboardingPage.hasChecked
    nav,                \* the last call of navigate, with what its caller saw
    accepted,           \* the backend accepted the answers since the last load
    loginPc,            \* login: "idle" | "status" (its status request in flight)
    signIn              \* the last sign-in SignInPage.handleSubmit completed

signInVars == << loginPc, signIn >>
routeVars == << route, isLoading, token, onboardingComplete, localStorage,
                is_complete, authPc, view, effectDue, hasChecked, nav, accepted,
                signInVars >>

VARIABLES
    \* MentorPage and its sendMessage requests
    input,              \* the textarea's text
    isReflecting,       \* MentorPage.isReflecting
    inFlight,           \* sendMessage requests sent and not yet answered
    reflections         \* the thoughts and guidances on the page

mentorVars == << input, isReflecting, inFlight, reflections >>

VARIABLES
    \* ConversationSpace.handleSubmit and the event stream it reads
    convPc,             \* "idle" | "save_user" | "fetch" | "stream" | "save_assistant"
    wire,               \* the bytes of the response body not yet read
    textBuffer,         \* handleSubmit's textBuffer
    assistantContent,   \* handleSubmit's assistantContent
    events,             \* the lines of the stream the function answered with
    convLog,            \* what handleSubmit has done for the current message
    convTurns           \* messages submitted

convVars == << convPc, wire, textBuffer, assistantContent, events, convLog, convTurns >>

VARIABLES
    \* the users and user_memory collections
    users,              \* the user ids that have a user document
    memoryDocs,         \* the user ids that have a user_memory document
    memoryOf,           \* per user id: the content of that document
    \* history variables of the verification
    assembled,          \* per user id: how many contexts were assembled
    createdBy           \* per user id: what inserted the user_memory document

userMemVars == << users, memoryDocs, memoryOf, assembled, createdBy >>
otherVars == << dashVars, chatUiVars, docVars, routeVars, mentorVars, convVars, userMemVars >>

\* no dashboard response computed yet
NoDashboard ==
    [state |-> None, insight |-> None,
     metrics |-> [clarity_score |-> 0, understanding_trend |-> None,
                  understanding_delta |-> 0, total_sessions |-> 0]]

\* ConversationSpace -> supabase function chat; MentorPage -> backend /api/chat
Channels == {"conversation", "mentor"}

\* no response received yet
NoResponse == [status |-> 0, body |-> <<>>]

InitChatUi ==
    /\ netPc = [ch \in Channels |-> "idle"]
    /\ httpResp = [ch \in Channels |-> NoResponse]
    /\ shown = [ch \in Channels |-> <<>>]

\* the writers of one user's document, each with the field it updates
Writers == {"evaluation", "interests", "goals"}

EmptyProfile == [interests |-> {}, goals |-> {}]

InitDoc ==
    /\ profile = EmptyProfile
    /\ wpc = [w \in Writers |-> "idle"]
    /\ wsnap = [w \in Writers |-> [evaluation_history |-> <<>>, profile |-> EmptyProfile]]
    /\ wrote = [w \in Writers |-> 0]
    /\ writeLog = {}

\* App's routes: the public ones and the ones wrapped in ProtectedRoute
PublicPaths == {"/", "/signin", "/signup"}
ProtectedPaths == {"/onboarding", "/dashboard", "/mentor"}
Paths == PublicPaths \cup ProtectedPaths

\* the requireOnboarding prop App gives the route's ProtectedRoute
requireOnboarding(path) == path # "/onboarding"

\* no call of navigate yet
NoNav == [by |-> None, to |-> None, loading |-> FALSE, authenticated |-> FALSE,
          complete |-> FALSE]

\* the two entries login and signup store
StorageKeys == {"auth_token", "auth_user"}

\* no sign-in completed yet
NoSignIn == [status |-> None, complete |-> FALSE, to |-> None]

\* a browser that has never signed in opens the landing page
InitRoute ==
    /\ route = "/"
    /\ isLoading = TRUE
    /\ token = None
    /\ onboardingComplete = FALSE
    /\ localStorage = {}
    /\ is_complete = FALSE
    /\ authPc = "mount"
    /\ view = "public"
    /\ effectDue = FALSE
    /\ hasChecked = FALSE
    /\ nav = NoNav
    /\ accepted = FALSE
    /\ loginPc = "idle"
    /\ signIn = NoSignIn

InitMentor ==
    /\ input = <<>>
    /\ isReflecting = FALSE
    /\ inFlight = 0
    /\ reflections = <<>>

InitConv ==
    /\ convPc = "idle"
    /\ wire = <<>>
    /\ textBuffer = <<>>
    /\ assistantContent = <<>>
    /\ events = <<>>
    /\ convLog = <<>>
    /\ convTurns = 0


UserIds == {"u1", "u2"}

\* A UserMemory document as a new one is built: onboarding not complete,
\* progress.total_interactions 0.
DefaultUserMemory == [is_complete |-> FALSE, total_interactions |-> 0]

InitUserMem ==
    /\ users = {}
    /\ memoryDocs = {}
    /\ memoryOf = [u \in UserIds |-> DefaultUserMemory]
    /\ assembled = [u \in UserIds |-> 0]
    /\ createdBy = [u \in UserIds |-> None]

reqVars == << pc, msg, ctx, strategy, response, reply, outcome, cancelled >>
bgVars == << bgpc, evalResult, bgFailed, bgStarts >>
chatVars == << chatLog >>
memVars == << evaluation_history, session_dates, total_interactions, struggles, traits >>
histVars == << trace, gw, storeFailed, evalLog, dateLog >>
pipelineVars == << reqVars, bgVars, chatVars, memVars, histVars >>
vars == << pipelineVars, otherVars >>
\* everything but the dashboard, everything but the chat pages
exceptDashVars == << pipelineVars, chatUiVars, docVars, routeVars, mentorVars, convVars, userMemVars >>
exceptChatUiVars == << pipelineVars, dashVars, docVars, routeVars, mentorVars, convVars, userMemVars >>
exceptDocVars == << reqVars, bgVars, chatVars, dashVars, chatUiVars, routeVars, mentorVars, convVars, userMemVars >>
exceptRouteVars == << pipelineVars, dashVars, chatUiVars, docVars, mentorVars, convVars, userMemVars >>
exceptMentorVars == << pipelineVars, dashVars, chatUiVars, docVars, routeVars, convVars, userMemVars >>
exceptConvVars == << pipelineVars, dashVars, chatUiVars, docVars, routeVars, mentorVars, userMemVars >>
exceptUserMemVars == << pipelineVars, dashVars, chatUiVars, docVars, routeVars, mentorVars, convVars >>

\* no Gateway call made yet
NoCalls == [plan |-> None, generate |-> None]

\* the clarity the user's one earlier evaluation may have left
PriorClarity == {50}

\* an evaluation already in the history when the model starts
PriorEval(c) ==
    [clarity_score |-> c, understanding_delta |-> 0, confusion_trend |-> "stable",
     struggle_detected |-> None, reasoning |-> <<"model reasoning">>, seq |-> 1]

\* The user is past onboarding and has one committed evaluation: what
\* prev_clarity is for an empty evaluation_history is not in the source.
Init ==
    /\ pc = [r \in Reqs |-> "idle"]
    /\ msg = [r \in Reqs |-> 0]
    /\ ctx = [r \in Reqs |-> None]
    /\ strategy = [r \in Reqs |-> None]
    /\ response = [r \in Reqs |-> <<>>]
    /\ reply = [r \in Reqs |-> <<>>]
    /\ outcome = [r \in Reqs |-> "pending"]
    /\ cancelled = [r \in Reqs |-> FALSE]
    /\ bgpc = [r \in Reqs |-> "none"]
    /\ evalResult = [r \in Reqs |-> None]
    /\ bgFailed = [r \in Reqs |-> FALSE]
    /\ bgStarts = [r \in Reqs |-> 0]
    /\ chatLog = {}
    /\ \E c \in PriorClarity : evaluation_history = << PriorEval(c) >>
    /\ session_dates = <<>>
    /\ total_interactions = InitInteractions
    /\ struggles = 0
    /\ traits = 0
    /\ trace = [r \in Reqs |-> <<>>]
    /\ gw = [r \in Reqs |-> NoCalls]
    /\ storeFailed = [r \in Reqs |-> None]
    /\ evalLog = << [e |-> evaluation_history[1], req |-> 0, confused |-> FALSE,
                     prev |-> evaluation_history[1].clarity_score,
                     gateway |-> GwFail] >>
    /\ dateLog = <<>>
    /\ total_sessions = 0
    /\ dashboard = NoDashboard
    /\ InitChatUi
    /\ InitDoc
    /\ InitRoute
    /\ InitMentor
    /\ InitConv
    /\ InitUserMem

(***************************************************************************)
(* The orchestrator's synchronous half: process_message_async.             *)
(***************************************************************************)
\* the orchestrator's reflection message
REFLECTION_MESSAGE ==
    << "I'm having a moment of reflection. Could you share that thought again?" >>

\* The handler issuing the write of the user message without awaiting it.
SubmitNoAwait(r, m) ==
    /\ pc[r] = "idle"
    /\ msg' = [msg EXCEPT ![r] = m]
    /\ pc' = [pc EXCEPT ![r] = "get_context"]
    /\ trace' = [trace EXCEPT ![r] = Append(@, "user_issue")]
    /\ UNCHANGED << ctx, strategy, response, reply, outcome, cancelled >>
    /\ UNCHANGED << bgVars, chatVars, memVars, gw, storeFailed, evalLog, dateLog >>
    /\ UNCHANGED otherVars

\* A request arrives: the handler issues the write of the user message and
\* awaits it.
Submit(r, m) ==
    /\ pc[r] = "idle"
    /\ msg' = [msg EXCEPT ![r] = m]
    /\ pc' = [pc EXCEPT ![r] = "save_user"]
    /\ trace' = [trace EXCEPT ![r] = Append(@, "user_issue")]
    /\ UNCHANGED << ctx, strategy, response, reply, outcome, cancelled >>
    /\ UNCHANGED << bgVars, chatVars, memVars, gw, storeFailed, evalLog, dateLog >>
    /\ UNCHANGED otherVars

\* The orchestrator letting the exception through: the request ends in an
\* error and no reply text.
OnSyncExceptionRaise(r, what) ==
    /\ storeFailed' = [storeFailed EXCEPT ![r] = what]
    /\ outcome' = [outcome EXCEPT ![r] = "error"]
    /\ pc' = [pc EXCEPT ![r] = "returned"]
    /\ msg' = [msg EXCEPT ![r] = 0]
    /\ ctx' = [ctx EXCEPT ![r] = None]
    /\ strategy' = [strategy EXCEPT ![r] = None]
    /\ response' = [response EXCEPT ![r] = <<>>]
    /\ UNCHANGED << reply, cancelled >>
    /\ UNCHANGED << bgVars, chatVars, memVars, trace, gw, evalLog, dateLog >>
    /\ UNCHANGED otherVars

\* "The orchestrator catches exceptions and returns a reflection message."
OnSyncException(r, what) ==
    /\ storeFailed' = [storeFailed EXCEPT ![r] = what]
    /\ reply' = [reply EXCEPT ![r] = REFLECTION_MESSAGE]
    /\ outcome' = [outcome EXCEPT ![r] = "reply"]
    /\ pc' = [pc EXCEPT ![r] = "returned"]
    /\ msg' = [msg EXCEPT ![r] = 0]
    /\ ctx' = [ctx EXCEPT ![r] = None]
    /\ strategy' = [strategy EXCEPT ![r] = None]
    /\ response' = [response EXCEPT ![r] = <<>>]
    /\ UNCHANGED cancelled
    /\ UNCHANGED << bgVars, chatVars, memVars, trace, gw, evalLog, dateLog >>
    /\ UNCHANGED otherVars

\* await chat_service.add_message(chat_id, user_id, MessageSender.USER, message)
SaveUserMessage(r) ==
    /\ pc[r] = "save_user"
    /\ chatLog' = chatLog \cup {[sender |-> "user", req |-> r]}
    /\ trace' = [trace EXCEPT ![r] = Append(@, "user_ack")]
    /\ pc' = [pc EXCEPT ![r] = "get_context"]
    /\ UNCHANGED << msg, ctx, strategy, response, reply, outcome, cancelled >>
    /\ UNCHANGED << bgVars, memVars, gw, storeFailed, evalLog, dateLog >>
    /\ UNCHANGED otherVars

SaveUserMessageFails(r) ==
    /\ pc[r] = "save_user"
    /\ OnSyncException(r, "save_user")

\* user_context = await self.memory_agent.get_user_context(user_id)
GetUserContext(r) ==
    /\ pc[r] = "get_context"
    /\ ctx' = [ctx EXCEPT ![r] =
                 [prev_clarity |->
                      evaluation_history[Len(evaluation_history)].clarity_score,
                  recent_chat |-> FALSE]]
    /\ pc' = [pc EXCEPT ![r] = "get_recent"]
    /\ UNCHANGED << msg, strategy, response, reply, outcome, cancelled >>
    /\ UNCHANGED << bgVars, chatVars, memVars, histVars >>
    /\ UNCHANGED otherVars

\* The context handed to the Planner without the recent chat.
GetUserContextThenPlan(r) ==
    /\ pc[r] = "get_recent"
    /\ pc' = [pc EXCEPT ![r] = "plan"]
    /\ UNCHANGED << msg, ctx, strategy, response, reply, outcome, cancelled >>
    /\ UNCHANGED << bgVars, chatVars, memVars, histVars >>
    /\ UNCHANGED otherVars

GetUserContextFails(r) ==
    /\ pc[r] = "get_context"
    /\ OnSyncException(r, "get_context")

\* user_context["recent_chat"] = await chat_service.format_context_for_llm(chat_id, n=5)
FormatContext(r) ==
    /\ pc[r] = "get_recent"
    /\ ctx' = [ctx EXCEPT ![r].recent_chat = TRUE]
    /\ pc' = [pc EXCEPT ![r] = "plan"]
    /\ UNCHANGED << msg, strategy, response, reply, outcome, cancelled >>
    /\ UNCHANGED << bgVars, chatVars, memVars, histVars >>
    /\ UNCHANGED otherVars

\* strategy = self.planner_agent.plan_response(user_context, message)
Plan(r) ==
    /\ pc[r] = "plan"
    /\ \E g \in GwOutcomes(GatewayStrategies) :
          /\ strategy' = [strategy EXCEPT ![r] = plan_response(g)]
          /\ gw' = [gw EXCEPT ![r].plan = IF g.ok THEN "ok" ELSE "failed"]
    /\ pc' = [pc EXCEPT ![r] = "generate"]
    /\ UNCHANGED << msg, ctx, response, reply, outcome, cancelled >>
    /\ UNCHANGED << bgVars, chatVars, memVars, trace, storeFailed, evalLog, dateLog >>
    /\ UNCHANGED otherVars

\* response = self.executor_agent.generate_response(user_context, message, strategy)
\* and the write of the mentor response is issued and awaited
Generate(r) ==
    /\ pc[r] = "generate"
    /\ \E g \in GwOutcomes(GatewayTexts) :
          /\ response' = [response EXCEPT ![r] = generate_response(g, strategy[r])]
          /\ gw' = [gw EXCEPT ![r].generate = IF g.ok THEN "ok" ELSE "failed"]
    /\ trace' = [trace EXCEPT ![r] = Append(@, "mentor_issue")]
    /\ pc' = [pc EXCEPT ![r] = "save_mentor"]
    /\ UNCHANGED << msg, ctx, strategy, reply, outcome, cancelled >>
    /\ UNCHANGED << bgVars, chatVars, memVars, storeFailed, evalLog, dateLog >>
    /\ UNCHANGED otherVars

\* The handler awaiting the background work instead of returning: the
\* reply is held back while the evaluation runs.
SaveMentorAwaitsBackground(r) ==
    /\ pc[r] = "save_mentor"
    /\ chatLog' = chatLog \cup {[sender |-> "mentor", req |-> r]}
    /\ trace' = [trace EXCEPT ![r] = Append(@, "mentor_ack")]
    /\ bgpc' = [bgpc EXCEPT ![r] = "detect_struggle"]
    /\ bgStarts' = [bgStarts EXCEPT ![r] = @ + 1]
    /\ pc' = [pc EXCEPT ![r] = "await_background"]
    /\ UNCHANGED << msg, ctx, strategy, response, reply, outcome, cancelled >>
    /\ UNCHANGED << evalResult, bgFailed, memVars, gw, storeFailed, evalLog, dateLog >>
    /\ UNCHANGED otherVars

\* await chat_service.add_message(chat_id, user_id, MessageSender.MENTOR, response)
\* asyncio.create_task(self._run_background_tasks(...))
\* return {"response": response, "chat_id": chat_id}
SaveMentorAndReturn(r) ==
    /\ pc[r] = "save_mentor"
    /\ chatLog' = chatLog \cup {[sender |-> "mentor", req |-> r]}
    /\ trace' = [trace EXCEPT ![r] = Append(@, "mentor_ack")]
    /\ bgpc' = [bgpc EXCEPT ![r] = "detect_struggle"]
    /\ bgStarts' = [bgStarts EXCEPT ![r] = @ + 1]
    /\ reply' = [reply EXCEPT ![r] = response[r]]
    /\ outcome' = [outcome EXCEPT ![r] = "reply"]
    /\ pc' = [pc EXCEPT ![r] = "returned"]
    /\ strategy' = [strategy EXCEPT ![r] = None]
    /\ response' = [response EXCEPT ![r] = <<>>]
    /\ UNCHANGED << msg, ctx, cancelled >>
    /\ UNCHANGED << evalResult, bgFailed, memVars, gw, storeFailed, evalLog, dateLog >>
    /\ UNCHANGED otherVars

SaveMentorFails(r) ==
    /\ pc[r] = "save_mentor"
    /\ OnSyncException(r, "save_mentor")

\* The enclosing request is cancelled (the client disconnects): the handler
\* is torn down at the await it stands at; after it has returned, its reply
\* is dropped instead of delivered.
AwaitPoints == {"save_user", "get_context", "get_recent", "save_mentor"}

\* the steps of the background task
BgSteps == {"detect_struggle", "evaluate", "store_eval", "update_effort", "traits"}

\* A cancellation that reaches the background task too (the task tied to
\* the request instead of detached from it).
CancelWithBackground(r) ==
    /\ pc[r] \in AwaitPoints \cup {"returned"}
    /\ cancelled' = [cancelled EXCEPT ![r] = TRUE]
    /\ pc' = [pc EXCEPT ![r] = IF pc[r] = "returned" THEN "dropped" ELSE "cancelled"]
    /\ outcome' = [outcome EXCEPT ![r] = IF pc[r] = "returned" THEN @ ELSE "cancelled"]
    /\ msg' = [msg EXCEPT ![r] = 0]
    /\ ctx' = [ctx EXCEPT ![r] = None]
    /\ strategy' = [strategy EXCEPT ![r] = None]
    /\ response' = [response EXCEPT ![r] = <<>>]
    /\ gw' = [gw EXCEPT ![r] = NoCalls]
    /\ bgpc' = [bgpc EXCEPT ![r] = IF @ \in BgSteps THEN "settled" ELSE @]
    /\ evalResult' = [evalResult EXCEPT ![r] = None]
    /\ UNCHANGED << reply, bgFailed, bgStarts >>
    /\ UNCHANGED << chatVars, memVars, trace, storeFailed, evalLog, dateLog >>
    /\ UNCHANGED otherVars

Cancel(r) ==
    /\ pc[r] \in AwaitPoints \cup {"returned"}
    /\ cancelled' = [cancelled EXCEPT ![r] = TRUE]
    /\ pc' = [pc EXCEPT ![r] = IF pc[r] = "returned" THEN "dropped" ELSE "cancelled"]
    /\ outcome' = [outcome EXCEPT ![r] = IF pc[r] = "returned" THEN @ ELSE "cancelled"]
    /\ IF pc[r] = "returned"
       THEN UNCHANGED << msg, ctx, strategy, response >>
       ELSE /\ msg' = [msg EXCEPT ![r] = 0]
            /\ ctx' = [ctx EXCEPT ![r] = None]
            /\ strategy' = [strategy EXCEPT ![r] = None]
            /\ response' = [response EXCEPT ![r] = <<>>]
    /\ gw' = [gw EXCEPT ![r] = NoCalls]
    /\ UNCHANGED reply
    /\ UNCHANGED << bgVars, chatVars, memVars, trace, storeFailed, evalLog, dateLog >>
    /\ UNCHANGED otherVars


(***************************************************************************)
(* The asynchronous half: _run_background_tasks, a task of its own.        *)
(***************************************************************************)

\* EvaluatorAgent.detect_struggle() -> update struggles
DetectStruggle(r) ==
    /\ bgpc[r] = "detect_struggle"
    /\ \E detected \in BOOLEAN :
          struggles' = IF detected THEN struggles + 1 ELSE struggles
    /\ bgpc' = [bgpc EXCEPT ![r] = "evaluate"]
    /\ gw' = [gw EXCEPT ![r] = NoCalls]
    /\ UNCHANGED << evalResult, bgFailed, bgStarts >>
    /\ UNCHANGED << evaluation_history, session_dates, total_interactions, traits >>
    /\ UNCHANGED << reqVars, chatVars, trace, storeFailed, evalLog, dateLog >>
    /\ UNCHANGED otherVars

\* An evaluate_interaction whose Gateway call has no timeout and never
\* comes back.
EvaluateNeverReturns(r) ==
    /\ bgpc[r] = "evaluate"
    /\ UNCHANGED vars

\* EvaluatorAgent.evaluate_interaction() -> clarity score
Evaluate(r) ==
    /\ bgpc[r] = "evaluate"
    /\ bgpc' = [bgpc EXCEPT ![r] = "store_eval"]
    /\ \E g \in GwOutcomes(GatewayEvals) :
          evalResult' = [evalResult EXCEPT ![r] =
              [result |-> evaluate_interaction(g, msg[r], ctx[r].prev_clarity),
               gateway |-> g]]
    /\ UNCHANGED << bgFailed, bgStarts >>
    /\ UNCHANGED << reqVars, chatVars, memVars, histVars >>
    /\ UNCHANGED otherVars

\* MemoryAgent.store_evaluation_result(): $push with $slice: -20
StoreEvaluationResult(r) ==
    /\ bgpc[r] = "store_eval"
    /\ LET res == evalResult[r].result
           entry == [clarity_score |-> res.clarity_score,
                     understanding_delta |-> res.understanding_delta,
                     confusion_trend |-> res.confusion_trend,
                     struggle_detected |-> res.struggle_detected,
                     reasoning |-> res.reasoning,
                     seq |-> Len(evalLog) + 1]
       IN  /\ evaluation_history' =
                  PushSlice(evaluation_history, entry, EVAL_HISTORY_CAP)
           /\ evalLog' = Append(evalLog,
                  [e |-> entry, req |-> r,
                   confused |-> Confused[msg[r]],
                   prev |-> ctx[r].prev_clarity,
                   gateway |-> evalResult[r].gateway])
    /\ trace' = [trace EXCEPT ![r] = Append(@, "eval_issue")]
    /\ bgpc' = [bgpc EXCEPT ![r] = "update_effort"]
    /\ UNCHANGED << evalResult, bgFailed, bgStarts >>
    /\ UNCHANGED << session_dates, total_interactions, struggles, traits >>
    /\ UNCHANGED << reqVars, chatVars, gw, storeFailed, dateLog >>
    /\ UNCHANGED otherVars

\* MemoryAgent.update_effort_metrics(): $inc and $push with $slice: -100
UpdateEffortMetrics(r) ==
    /\ bgpc[r] = "update_effort"
    /\ total_interactions' = total_interactions + 1
    /\ session_dates' =
           PushSlice(session_dates, Len(dateLog) + 1, SESSION_DATES_CAP)
    /\ dateLog' = Append(dateLog, Len(dateLog) + 1)
    /\ bgpc' = [bgpc EXCEPT ![r] = "traits"]
    /\ UNCHANGED << evalResult, bgFailed, bgStarts >>
    /\ UNCHANGED << evaluation_history, struggles, traits >>
    /\ UNCHANGED << reqVars, chatVars, trace, gw, storeFailed, evalLog >>
    /\ UNCHANGED otherVars

\* Periodic: update_learner_traits() (every 5 interactions)
UpdateLearnerTraits(r) ==
    /\ bgpc[r] = "traits"
    /\ traits' = IF total_interactions % TRAIT_PERIOD = 0 THEN traits + 1 ELSE traits
    /\ bgpc' = [bgpc EXCEPT ![r] = "settled"]
    /\ evalResult' = [evalResult EXCEPT ![r] = None]
    /\ msg' = [msg EXCEPT ![r] = 0]
    /\ ctx' = [ctx EXCEPT ![r] = None]
    /\ UNCHANGED << bgFailed, bgStarts >>
    /\ UNCHANGED << evaluation_history, session_dates, total_interactions, struggles >>
    /\ UNCHANGED << pc, strategy, response, reply, outcome, cancelled >>
    /\ UNCHANGED << chatVars, histVars >>
    /\ UNCHANGED otherVars

\* A failed background task that is started again.
BackgroundFailsRetry(r) ==
    /\ bgpc[r] \in BgSteps
    /\ bgStarts[r] < 3
    /\ bgFailed' = [bgFailed EXCEPT ![r] = TRUE]
    /\ bgpc' = [bgpc EXCEPT ![r] = "detect_struggle"]
    /\ bgStarts' = [bgStarts EXCEPT ![r] = @ + 1]
    /\ evalResult' = [evalResult EXCEPT ![r] = None]
    /\ gw' = [gw EXCEPT ![r] = NoCalls]
    /\ UNCHANGED << reqVars, chatVars, memVars, trace, storeFailed, evalLog, dateLog >>
    /\ UNCHANGED otherVars

\* Any step of the background work raises: the task ends there, the
\* exception stays in the task (logged, swallowed).
BackgroundFails(r) ==
    /\ bgpc[r] \in BgSteps
    /\ bgFailed' = [bgFailed EXCEPT ![r] = TRUE]
    /\ bgpc' = [bgpc EXCEPT ![r] = "settled"]
    /\ evalResult' = [evalResult EXCEPT ![r] = None]
    /\ msg' = [msg EXCEPT ![r] = 0]
    /\ ctx' = [ctx EXCEPT ![r] = None]
    /\ gw' = [gw EXCEPT ![r] = NoCalls]
    /\ UNCHANGED bgStarts
    /\ UNCHANGED << pc, strategy, response, reply, outcome, cancelled >>
    /\ UNCHANGED << chatVars, memVars, trace, storeFailed, evalLog, dateLog >>
    /\ UNCHANGED otherVars

Next ==
    \E r \in Reqs :
        \/ \E m \in MsgIds : Submit(r, m)
        \/ SaveUserMessage(r)
        \/ SaveUserMessageFails(r)
        \/ GetUserContext(r)
        \/ GetUserContextFails(r)
        \/ FormatContext(r)
        \/ Plan(r)
        \/ Generate(r)
        \/ SaveMentorAndReturn(r)
        \/ SaveMentorFails(r)
        \/ Cancel(r)
        \/ DetectStruggle(r)
        \/ Evaluate(r)
        \/ StoreEvaluationResult(r)
        \/ UpdateEffortMetrics(r)
        \/ UpdateLearnerTraits(r)
        \/ BackgroundFails(r)

Spec == Init /\ [][Next]_vars

\* The state of a request in the specification's state machine: 1 RECEIVED,
\* 2 CONTEXT_READY, 3 STRATEGY_READY, 4 RESPONSE_READY, 5 EVALUATING,
\* 6 SETTLED; 0 before the request arrives, 7 for a request that ended in
\* the handler's exception path or was cancelled before its reply.
RequestState(r) ==
    CASE pc[r] = "idle" -> 0
      [] pc[r] \in {"save_user", "get_context", "get_recent"} -> 1
      [] pc[r] = "plan" -> 2
      [] pc[r] = "generate" -> 3
      [] pc[r] \in {"save_mentor", "await_background"} -> 4
      [] pc[r] \in {"returned", "dropped"} /\ bgpc[r] \in BgSteps -> 5
      [] pc[r] \in {"returned", "dropped"} /\ bgpc[r] = "settled" -> 6
      [] OTHER -> 7

(***************************************************************************)
(* The background tasks alone, with the event loop's scheduling: every     *)
(* request's reply has been returned and its _run_background_tasks task    *)
(* has been created; a created task is run, and each of its awaits comes   *)
(* back, with a value or an exception (a Gateway call within its timeout). *)
(***************************************************************************)
InitReturned ==
    /\ \E ms \in [Reqs -> MsgIds] : msg = ms
    /\ pc = [r \in Reqs |-> "returned"]
    /\ ctx = [r \in Reqs |-> [prev_clarity |-> 50, recent_chat |-> TRUE]]
    /\ strategy = [r \in Reqs |-> None]
    /\ response = [r \in Reqs |-> <<>>]
    /\ reply = [r \in Reqs |-> FALLBACK_RESPONSE]
    /\ outcome = [r \in Reqs |-> "reply"]
    /\ cancelled = [r \in Reqs |-> FALSE]
    /\ bgpc = [r \in Reqs |-> "detect_struggle"]
    /\ evalResult = [r \in Reqs |-> None]
    /\ bgFailed = [r \in Reqs |-> FALSE]
    /\ bgStarts = [r \in Reqs |-> 1]
    /\ chatLog = { [sender |-> s, req |-> r] : s \in {"user", "mentor"}, r \in Reqs }
    /\ evaluation_history = << PriorEval(50) >>
    /\ session_dates = <<>>
    /\ total_interactions = InitInteractions
    /\ struggles = 0
    /\ traits = 0
    /\ trace = [r \in Reqs |-> << "user_issue", "user_ack",
                                  "mentor_issue", "mentor_ack" >>]
    /\ gw = [r \in Reqs |-> NoCalls]
    /\ storeFailed = [r \in Reqs |-> None]
    /\ evalLog = << [e |-> evaluation_history[1], req |-> 0, confused |-> FALSE,
                     prev |-> evaluation_history[1].clarity_score,
                     gateway |-> GwFail] >>
    /\ dateLog = <<>>
    /\ total_sessions = 0
    /\ dashboard = NoDashboard
    /\ InitChatUi
    /\ InitDoc
    /\ InitRoute
    /\ InitMentor
    /\ InitConv
    /\ InitUserMem

NextBackground ==
    \E r \in Reqs :
        \/ DetectStruggle(r)
        \/ Evaluate(r)
        \/ StoreEvaluationResult(r)
        \/ UpdateEffortMetrics(r)
        \/ UpdateLearnerTraits(r)
        \/ BackgroundFails(r)

\* asyncio runs every task it was given, and every await of the task comes
\* back: a step that stays possible is taken, unless the task fails first.
TaskScheduling ==
    \A r \in Reqs :
        /\ WF_bgpc(DetectStruggle(r))
        /\ WF_bgpc(Evaluate(r))
        /\ WF_bgpc(StoreEvaluationResult(r))
        /\ WF_bgpc(UpdateEffortMetrics(r))
        /\ WF_bgpc(UpdateLearnerTraits(r))

SpecBackground == InitReturned /\ [][NextBackground]_vars /\ TaskScheduling

(***************************************************************************)
(* The memory store alone: any number of appends to the bounded arrays.    *)
(***************************************************************************)
AppendEvaluation ==
    /\ Len(evalLog) < MaxEvalAppends
    /\ LET prev == evaluation_history[Len(evaluation_history)].clarity_score
           d == _default_evaluation(prev)
           entry == [clarity_score |-> d.clarity_score,
                     understanding_delta |-> d.understanding_delta,
                     confusion_trend |-> d.confusion_trend,
                     struggle_detected |-> d.struggle_detected,
                     reasoning |-> d.reasoning,
                     seq |-> Len(evalLog) + 1]
       IN  /\ evaluation_history' =
                  PushSlice(evaluation_history, entry, EVAL_HISTORY_CAP)
           /\ evalLog' = Append(evalLog,
                  [e |-> entry, req |-> 0, confused |-> FALSE, prev |-> prev,
                   gateway |-> GwFail])
    /\ UNCHANGED << session_dates, total_interactions, struggles, traits >>
    /\ UNCHANGED << reqVars, bgVars, chatVars, trace, gw, storeFailed, dateLog >>
    /\ UNCHANGED otherVars

AppendSessionDate ==
    /\ Len(dateLog) < MaxDateAppends
    /\ session_dates' =
           PushSlice(session_dates, Len(dateLog) + 1, SESSION_DATES_CAP)
    /\ dateLog' = Append(dateLog, Len(dateLog) + 1)
    /\ total_interactions' = total_interactions + 1
    /\ UNCHANGED << evaluation_history, struggles, traits >>
    /\ UNCHANGED << reqVars, bgVars, chatVars, trace, gw, storeFailed, evalLog >>
    /\ UNCHANGED otherVars

NextStore == AppendEvaluation \/ AppendSessionDate

SpecStore == Init /\ [][NextStore]_vars

(***************************************************************************)
(* The evaluator alone: one turn whose reply has been returned and whose   *)
(* background task stands before evaluate_interaction, for every message,  *)
(* previous clarity and Gateway output of the grids below.                 *)
(***************************************************************************)
\* the clarity of the user's last evaluation before the turn
EvalPriors == {0, 50, 60, 100}

\* what the Gateway may return for the turn's evaluation: the values its
\* prompt asks for, and values outside them (nothing between the Gateway
\* and the fail-safe checks a score's range or a trend's name)
EvalGrid ==
    [clarity_score : {-5, 0, 30, 60, 65, 100, 150},
     understanding_delta : {-10, 0, 15},
     confusion_trend : {"improving", "stable", "worsening", "mixed"},
     struggle_detected : {None, "recursion"},
     reasoning : {<<"model reasoning">>}]

InitEval ==
    /\ \E m \in MsgIds, c \in EvalPriors :
          /\ msg = [r \in Reqs |-> IF r = 1 THEN m ELSE 0]
          /\ ctx = [r \in Reqs |-> IF r = 1
                                   THEN [prev_clarity |-> c, recent_chat |-> TRUE]
                                   ELSE None]
          /\ evaluation_history = << PriorEval(c) >>
    /\ pc = [r \in Reqs |-> IF r = 1 THEN "returned" ELSE "idle"]
    /\ strategy = [r \in Reqs |-> None]
    /\ response = [r \in Reqs |-> <<>>]
    /\ reply = [r \in Reqs |-> IF r = 1 THEN FALLBACK_RESPONSE ELSE <<>>]
    /\ outcome = [r \in Reqs |-> IF r = 1 THEN "reply" ELSE "pending"]
    /\ cancelled = [r \in Reqs |-> FALSE]
    /\ bgpc = [r \in Reqs |-> IF r = 1 THEN "evaluate" ELSE "none"]
    /\ evalResult = [r \in Reqs |-> None]
    /\ bgFailed = [r \in Reqs |-> FALSE]
    /\ bgStarts = [r \in Reqs |-> IF r = 1 THEN 1 ELSE 0]
    /\ chatLog = {[sender |-> "user", req |-> 1], [sender |-> "mentor", req |-> 1]}
    /\ session_dates = <<>>
    /\ total_interactions = InitInteractions
    /\ struggles = 0
    /\ traits = 0
    /\ trace = [r \in Reqs |-> IF r = 1
                               THEN << "user_issue", "user_ack",
                                       "mentor_issue", "mentor_ack" >>
                               ELSE <<>>]
    /\ gw = [r \in Reqs |-> NoCalls]
    /\ storeFailed = [r \in Reqs |-> None]
    /\ evalLog = << [e |-> evaluation_history[1], req |-> 0, confused |-> FALSE,
                     prev |-> evaluation_history[1].clarity_score,
                     gateway |-> GwFail] >>
    /\ dateLog = <<>>
    /\ total_sessions = 0
    /\ dashboard = NoDashboard
    /\ InitChatUi
    /\ InitDoc
    /\ InitRoute
    /\ InitMentor
    /\ InitConv
    /\ InitUserMem

\* EvaluatorAgent.evaluate_interaction(), the Gateway output drawn from the grid
EvaluateGrid(r) ==
    /\ bgpc[r] = "evaluate"
    /\ \E g \in GwOutcomes(EvalGrid) :
          evalResult' = [evalResult EXCEPT ![r] =
              [result |-> evaluate_interaction(g, msg[r], ctx[r].prev_clarity),
               gateway |-> g]]
    /\ bgpc' = [bgpc EXCEPT ![r] = "store_eval"]
    /\ UNCHANGED << bgFailed, bgStarts >>
    /\ UNCHANGED << reqVars, chatVars, memVars, histVars >>
    /\ UNCHANGED otherVars

NextEval == \E r \in Reqs : EvaluateGrid(r) \/ StoreEvaluationResult(r)

SpecEval == InitEval /\ [][NextEval]_vars

(***************************************************************************)
(* The dashboard service: derived, display-ready values.                   *)
(***************************************************************************)
MaxSessions == 13

\* clarity below this is low, clarity from HIGH_CLARITY on is high
LOW_CLARITY == 40
HIGH_CLARITY == 70
\* _generate_truthful_insight: "sessions > 5", "sessions <= 3", "clarity >= 60"
MANY_SESSIONS == 5
FEW_SESSIONS == 3
EFFICIENT_CLARITY == 60

\* A momentum state that follows the session count (momentum "from sessions
\* + clarity"): enough sessions classify as steady or accelerating.
_derive_momentum_by_sessions(history, sessions) ==
    IF history = <<>> THEN "starting"
    ELSE IF sessions > 2 * MANY_SESSIONS THEN "accelerating"
    ELSE IF sessions > MANY_SESSIONS THEN "steady"
    ELSE "building"

\* The momentum state: from the latest clarity_score and confusion_trend;
\* the session count is ignored for it.
_derive_momentum(history, sessions) ==
    IF history = <<>> THEN "starting"
    ELSE LET latest == history[Len(history)]
         IN  IF latest.clarity_score < LOW_CLARITY THEN "struggling"
             ELSE IF latest.clarity_score >= HIGH_CLARITY
                  THEN IF latest.confusion_trend = "improving"
                       THEN "accelerating" ELSE "steady"
             ELSE "building"

\* the insight text, by its fixed part
_generate_truthful_insight(state, clarity, confusion_trend, sessions) ==
    IF sessions > MANY_SESSIONS /\ clarity < LOW_CLARITY
    THEN "High effort, but clarity remains challenging. Consider revisiting fundamentals."
    ELSE IF sessions <= FEW_SESSIONS /\ clarity >= EFFICIENT_CLARITY
    THEN "Efficient learning: clarity achieved with minimal sessions. Quality over quantity."
    ELSE IF confusion_trend = "worsening"
    THEN "Understanding appears to be declining. This is normal - consider slowing down."
    ELSE state

\* the stored clarity scores the dashboard is computed from
InsightClarities == {30, 39, 40, 65, 70, 90}

InsightEval(c, t) ==
    [clarity_score |-> c, understanding_delta |-> 0, confusion_trend |-> t,
     struggle_detected |-> None, reasoning |-> <<"model reasoning">>, seq |-> 1]

\* A user with no evaluation yet or with one, of any clarity and trend.
InitInsight ==
    /\ pc = [r \in Reqs |-> "idle"]
    /\ msg = [r \in Reqs |-> 0]
    /\ ctx = [r \in Reqs |-> None]
    /\ strategy = [r \in Reqs |-> None]
    /\ response = [r \in Reqs |-> <<>>]
    /\ reply = [r \in Reqs |-> <<>>]
    /\ outcome = [r \in Reqs |-> "pending"]
    /\ cancelled = [r \in Reqs |-> FALSE]
    /\ bgpc = [r \in Reqs |-> "none"]
    /\ evalResult = [r \in Reqs |-> None]
    /\ bgFailed = [r \in Reqs |-> FALSE]
    /\ bgStarts = [r \in Reqs |-> 0]
    /\ chatLog = {}
    /\ \/ evaluation_history = <<>>
       \/ \E c \in InsightClarities, t \in {"improving", "stable", "worsening"} :
             evaluation_history = << InsightEval(c, t) >>
    /\ session_dates = <<>>
    /\ total_interactions = InitInteractions
    /\ struggles = 0
    /\ traits = 0
    /\ trace = [r \in Reqs |-> <<>>]
    /\ gw = [r \in Reqs |-> NoCalls]
    /\ storeFailed = [r \in Reqs |-> None]
    /\ evalLog = [i \in 1..Len(evaluation_history) |->
                     [e |-> evaluation_history[i], req |-> 0, confused |-> FALSE,
                      prev |-> evaluation_history[i].clarity_score,
                      gateway |-> GwFail]]
    /\ dateLog = <<>>
    /\ total_sessions = 0
    /\ dashboard = NoDashboard
    /\ InitChatUi
    /\ InitDoc
    /\ InitRoute
    /\ InitMentor
    /\ InitConv
    /\ InitUserMem

\* one more session is counted in effort_metrics
RecordSession ==
    /\ total_sessions < MaxSessions
    /\ total_sessions' = total_sessions + 1
    /\ UNCHANGED << dashboard, exceptDashVars >>

\* A dashboard that also stamps the visit into effort_metrics.
GetDashboardInsightsCounting ==
    /\ total_sessions < MaxSessions
    /\ total_sessions' = total_sessions + 1
    /\ dashboard' = [NoDashboard EXCEPT
           !.state = _derive_momentum(evaluation_history, total_sessions)]
    /\ UNCHANGED exceptDashVars

\* DashboardService.get_dashboard_insights(user_id): reads, computes, returns
GetDashboardInsights ==
    /\ LET state == _derive_momentum(evaluation_history, total_sessions)
           has == evaluation_history # <<>>
           latest == evaluation_history[Len(evaluation_history)]
           clarity == IF has THEN latest.clarity_score ELSE 0
           trend == IF has THEN latest.confusion_trend ELSE "stable"
           delta == IF has THEN latest.understanding_delta ELSE 0
       IN  dashboard' =
               [state |-> state,
                insight |-> _generate_truthful_insight(state, clarity, trend,
                                                       total_sessions),
                metrics |-> [clarity_score |-> clarity,
                             understanding_trend |-> trend,
                             understanding_delta |-> delta,
                             total_sessions |-> total_sessions]]
    /\ UNCHANGED << total_sessions, exceptDashVars >>

NextInsight == RecordSession \/ GetDashboardInsights

SpecInsight == InitInsight /\ [][NextInsight]_vars

(***************************************************************************)
(* The chat pages and their endpoints: what is sent back on a failure and  *)
(* what the page shows.                                                    *)
(***************************************************************************)
MaxTurns == 2

\* what can happen to one call of the supabase function chat
ServeFaults == {"bad_body", "no_key", "fetch_throws", "throws_non_error",
                "status_429", "status_402", "status_500", "ok"}

\* the message of the Error thrown inside serve's try block
ErrorMessage ==
    [bad_body |-> "Unexpected end of JSON input",
     no_key |-> "LOVABLE_API_KEY is not configured",
     fetch_throws |-> "error sending request for url (https://ai.gateway.lovable.dev/v1/chat/completions)"]

\* serve(req) of supabase/functions/chat: the Response it returns
serve(fault) ==
    IF fault \in DOMAIN ErrorMessage
    THEN [status |-> 500, body |-> << ErrorMessage[fault] >>]
    ELSE IF fault = "throws_non_error"
    THEN [status |-> 500, body |-> << "Unknown error" >>]
    ELSE IF fault = "status_429"
    THEN [status |-> 429,
          body |-> << "I need a moment to catch my breath. Please try again shortly." >>]
    ELSE IF fault = "status_402"
    THEN [status |-> 402,
          body |-> << "Our conversation space needs some attention. Please check back soon." >>]
    ELSE IF fault = "status_500"
    THEN [status |-> 500, body |-> << "Something went wrong. Let's try again." >>]
    ELSE [status |-> 200, body |-> << "assistant text" >>]

\* what can happen to one call of the backend's /api/chat: a failure inside
\* the orchestrator (Gateway, store), or an exception nothing catches
ApiFaults == {"none", "pipeline_exception", "unhandled_exception"}

\* str(exc) of an exception of the store's driver
StoreExceptionText ==
    "ServerSelectionTimeoutError: localhost:27017: [Errno 111] Connection refused"

\* @app.exception_handler(Exception)
global_exception_handler(exc) ==
    [status |-> 500, body |-> << "Internal server error: ", exc >>]

\* POST /api/chat
api_chat(fault) ==
    IF fault = "unhandled_exception"
    THEN global_exception_handler(StoreExceptionText)
    ELSE IF fault = "pipeline_exception"
    THEN [status |-> 200, body |-> REFLECTION_MESSAGE]
    ELSE [status |-> 200, body |-> << "mentor text" >>]

\* the texts of internal errors
RawErrorTexts ==
    { ErrorMessage[f] : f \in DOMAIN ErrorMessage } \cup {StoreExceptionText}

\* the page's own message for a failed exchange
PageErrorText ==
    [conversation |->
        "I'm having trouble responding right now. Let's try again in a moment.",
     mentor |->
        "I sense a moment of stillness in our connection. Please share your thought again, and we'll find our way together."]

\* handleSubmit: the page sends the message and waits
ClientSend(ch) ==
    /\ netPc[ch] = "idle"
    /\ Len(shown[ch]) < MaxTurns
    /\ netPc' = [netPc EXCEPT ![ch] = "waiting"]
    /\ UNCHANGED << httpResp, shown, exceptChatUiVars >>

\* the supabase function answers
ServeChat ==
    /\ netPc["conversation"] = "waiting"
    /\ \E fault \in ServeFaults :
          httpResp' = [httpResp EXCEPT !["conversation"] = serve(fault)]
    /\ netPc' = [netPc EXCEPT !["conversation"] = "responded"]
    /\ UNCHANGED << shown, exceptChatUiVars >>

\* the backend answers
ApiChat ==
    /\ netPc["mentor"] = "waiting"
    /\ \E fault \in ApiFaults :
          httpResp' = [httpResp EXCEPT !["mentor"] = api_chat(fault)]
    /\ netPc' = [netPc EXCEPT !["mentor"] = "responded"]
    /\ UNCHANGED << shown, exceptChatUiVars >>

\* the page takes the response: a reply is shown, anything else is thrown
\* and caught, and the page shows its own message
ClientReceive(ch) ==
    /\ netPc[ch] = "responded"
    /\ shown' = [shown EXCEPT ![ch] =
                    Append(@, IF httpResp[ch].status = 200
                              THEN httpResp[ch].body[1]
                              ELSE PageErrorText[ch])]
    /\ netPc' = [netPc EXCEPT ![ch] = "idle"]
    /\ UNCHANGED << httpResp, exceptChatUiVars >>

\* fetch itself rejects (no connection): caught the same way
ClientFetchFails(ch) ==
    /\ netPc[ch] = "waiting"
    /\ shown' = [shown EXCEPT ![ch] = Append(@, PageErrorText[ch])]
    /\ netPc' = [netPc EXCEPT ![ch] = "idle"]
    /\ UNCHANGED << httpResp, exceptChatUiVars >>

NextChatUi ==
    \/ \E ch \in Channels : ClientSend(ch) \/ ClientReceive(ch) \/ ClientFetchFails(ch)
    \/ ServeChat
    \/ ApiChat

SpecChatUi == Init /\ [][NextChatUi]_vars

(***************************************************************************)
(* Writers of one user_memory document: each reads the document, then      *)
(* issues its update; the updates are operators on single fields.          *)
(***************************************************************************)
MaxWrites == 2

\* what a profile writer may add to its field
ProfileValues ==
    [interests |-> {"python", "machine learning"}, goals |-> {"backend developer"}]

\* the writer reads the document (get_user_context)
BeginWrite(w) ==
    /\ wpc[w] = "idle"
    /\ wrote[w] < MaxWrites
    /\ wsnap' = [wsnap EXCEPT ![w] = [evaluation_history |-> evaluation_history,
                                      profile |-> profile]]
    /\ wpc' = [wpc EXCEPT ![w] = "read"]
    /\ UNCHANGED << profile, wrote, writeLog, memVars, histVars, exceptDocVars >>

\* update_one(..., {"$push": {"progress.evaluation_history": {"$each": [e], "$slice": -20}}})
WriteEvaluation ==
    /\ wpc["evaluation"] = "read"
    /\ LET snap == wsnap["evaluation"].evaluation_history
           prev == snap[Len(snap)].clarity_score
           d == _default_evaluation(prev)
           entry == [clarity_score |-> d.clarity_score,
                     understanding_delta |-> d.understanding_delta,
                     confusion_trend |-> d.confusion_trend,
                     struggle_detected |-> d.struggle_detected,
                     reasoning |-> d.reasoning,
                     seq |-> Len(evalLog) + 1]
       IN  /\ evaluation_history' =
                  PushSlice(evaluation_history, entry, EVAL_HISTORY_CAP)
           /\ evalLog' = Append(evalLog,
                  [e |-> entry, req |-> 0, confused |-> FALSE, prev |-> prev,
                   gateway |-> GwFail])
    /\ wpc' = [wpc EXCEPT !["evaluation"] = "idle"]
    /\ wrote' = [wrote EXCEPT !["evaluation"] = @ + 1]
    /\ UNCHANGED << profile, wsnap, writeLog >>
    /\ UNCHANGED << session_dates, total_interactions, struggles, traits >>
    /\ UNCHANGED << trace, gw, storeFailed, dateLog, exceptDocVars >>

\* A profile write that replaces the whole document by the writer's copy of
\* it with the field changed (replace_one).
WriteProfileReplace(w) ==
    /\ w \in {"interests", "goals"}
    /\ wpc[w] = "read"
    /\ \E x \in ProfileValues[w] :
          /\ profile' = [wsnap[w].profile EXCEPT ![w] = @ \cup {x}]
          /\ writeLog' = writeLog \cup
                 {[field |-> w, value |-> x,
                   stale |-> wsnap[w].evaluation_history # evaluation_history]}
    /\ evaluation_history' = wsnap[w].evaluation_history
    /\ wpc' = [wpc EXCEPT ![w] = "idle"]
    /\ wrote' = [wrote EXCEPT ![w] = @ + 1]
    /\ UNCHANGED wsnap
    /\ UNCHANGED << session_dates, total_interactions, struggles, traits >>
    /\ UNCHANGED << histVars, exceptDocVars >>

\* update_one(..., {"$set": {"profile.<field>": merged}}): the one field
WriteProfile(w) ==
    /\ w \in {"interests", "goals"}
    /\ wpc[w] = "read"
    /\ \E x \in ProfileValues[w] :
          /\ profile' = [profile EXCEPT ![w] = wsnap[w].profile[w] \cup {x}]
          /\ writeLog' = writeLog \cup
                 {[field |-> w, value |-> x,
                   stale |-> wsnap[w].evaluation_history # evaluation_history]}
    /\ wpc' = [wpc EXCEPT ![w] = "idle"]
    /\ wrote' = [wrote EXCEPT ![w] = @ + 1]
    /\ UNCHANGED wsnap
    /\ UNCHANGED << memVars, histVars, exceptDocVars >>

NextDoc ==
    \/ \E w \in Writers : BeginWrite(w) \/ WriteProfile(w)
    \/ WriteEvaluation

SpecDoc == Init /\ [][NextDoc]_vars

(***************************************************************************)
(* The browser: AuthProvider (AuthContext.tsx), App's routes, the route    *)
(* guard ProtectedRoute and the pages that call navigate.  A render is     *)
(* part of the step that changed what it reads; the guard's effect runs    *)
(* after the render, as a step of its own.                                 *)
(***************************************************************************)

\* what ProtectedRoute returns
ProtectedRoute(requireOnb, loading, isAuthenticated, complete) ==
    IF loading THEN "spinner"
    ELSE IF ~isAuthenticated THEN "null"
    ELSE IF requireOnb /\ ~complete THEN "null"
    ELSE "children"

\* the element App renders for a path
RouteElement(path, loading, tok, complete) ==
    IF path \in PublicPaths
    THEN "public"
    ELSE ProtectedRoute(requireOnboarding(path), loading, tok # None, complete)

\* the render that follows a change of the path or of AuthProvider's state:
\* the guard's effect is due when the guard mounted or one of its
\* dependencies changed; OnboardingPage keeps its state while it is mounted
Render(path, loading, tok, complete, due, checked) ==
    /\ view' = RouteElement(path, loading, tok, complete)
    /\ effectDue' = (/\ path \in ProtectedPaths
                     /\ \/ due
                        \/ << path, loading, tok # None, complete >>
                             # << route, isLoading, token # None, onboardingComplete >>)
    /\ hasChecked' = (/\ checked
                      /\ path = "/onboarding"
                      /\ RouteElement(path, loading, tok, complete) = "children")

\* navigate(to), with what the caller had in hand
Navigate(by, to) ==
    /\ route' = to
    /\ nav' = [by |-> by, to |-> to, loading |-> isLoading,
               authenticated |-> token # None, complete |-> onboardingComplete]

\* AuthProvider's mount effect, up to its first await
AuthMount ==
    /\ authPc = "mount"
    /\ IF StorageKeys \subseteq localStorage
       THEN /\ token' = "jwt"
            /\ authPc' = "checking"
            /\ UNCHANGED isLoading
       ELSE /\ isLoading' = FALSE
            /\ authPc' = "ready"
            /\ UNCHANGED token
    /\ Render(route, isLoading', token', onboardingComplete, effectDue, hasChecked)
    /\ UNCHANGED << route, onboardingComplete, localStorage, is_complete, nav, accepted >>
    /\ UNCHANGED signInVars
    /\ UNCHANGED exceptRouteVars

\* checkOnboardingWithToken, once the status request has answered or failed
CheckOnboardingWithToken ==
    /\ authPc = "checking"
    /\ \E ok \in BOOLEAN :
        onboardingComplete' = IF ok THEN is_complete ELSE onboardingComplete
    /\ isLoading' = FALSE
    /\ authPc' = "ready"
    /\ Render(route, FALSE, token, onboardingComplete', effectDue, hasChecked)
    /\ UNCHANGED << route, token, localStorage, is_complete, nav, accepted >>
    /\ UNCHANGED signInVars
    /\ UNCHANGED exceptRouteVars

\* SignInPage.handleSubmit up to login's second await: the backend accepts
\* the login, into an account that has or has not completed onboarding, and
\* the status request is sent
LoginStart ==
    /\ authPc # "mount"
    /\ route = "/signin"
    /\ loginPc = "idle"
    /\ token' = "jwt"
    /\ localStorage' = StorageKeys
    /\ \E done \in BOOLEAN : is_complete' = done
    /\ accepted' = FALSE
    /\ loginPc' = "status"
    /\ Render(route, isLoading, token', onboardingComplete, effectDue, hasChecked)
    /\ UNCHANGED << route, isLoading, onboardingComplete, authPc, nav, signIn >>
    /\ UNCHANGED exceptRouteVars

\* The rest of the sign-in, sending every user to /dashboard.
LoginStatusToDashboard ==
    /\ loginPc = "status"
    /\ \E ok \in BOOLEAN :
        /\ onboardingComplete' = IF ok THEN is_complete ELSE onboardingComplete
        /\ Navigate("SignInPage", "/dashboard")
        /\ signIn' = [status |-> IF ok THEN "answered" ELSE "failed",
                      complete |-> is_complete, to |-> route']
    /\ loginPc' = "idle"
    /\ Render(route', isLoading, token, onboardingComplete', effectDue, hasChecked)
    /\ UNCHANGED << isLoading, token, localStorage, is_complete, authPc, accepted >>
    /\ UNCHANGED exceptRouteVars

\* checkOnboardingWithTokenAndReturn once the status request has answered or
\* failed, login's return and the rest of SignInPage.handleSubmit
LoginStatus ==
    /\ loginPc = "status"
    /\ \E ok \in BOOLEAN :
        /\ onboardingComplete' = IF ok THEN is_complete ELSE onboardingComplete
        /\ Navigate("SignInPage",
                    IF ok /\ is_complete THEN "/dashboard" ELSE "/onboarding")
        /\ signIn' = [status |-> IF ok THEN "answered" ELSE "failed",
                      complete |-> is_complete, to |-> route']
    /\ loginPc' = "idle"
    /\ Render(route', isLoading, token, onboardingComplete', effectDue, hasChecked)
    /\ UNCHANGED << isLoading, token, localStorage, is_complete, authPc, accepted >>
    /\ UNCHANGED exceptRouteVars

\* SignUpPage.handleSubmit with a signup the backend accepts
Signup ==
    /\ authPc # "mount"
    /\ route = "/signup"
    /\ token' = "jwt"
    /\ onboardingComplete' = FALSE
    /\ localStorage' = StorageKeys
    /\ is_complete' = FALSE
    /\ accepted' = FALSE
    /\ Navigate("SignUpPage", "/onboarding")
    /\ Render(route', isLoading, token', FALSE, FALSE, FALSE)
    /\ UNCHANGED << isLoading, authPc >>
    /\ UNCHANGED signInVars
    /\ UNCHANGED exceptRouteVars

\* handleLogout of a page under the guard
Logout ==
    /\ route \in {"/dashboard", "/mentor"}
    /\ view = "children"
    /\ token' = None
    /\ onboardingComplete' = FALSE
    /\ localStorage' = {}
    /\ accepted' = FALSE
    /\ Navigate("logout", "/")
    /\ Render("/", isLoading, None, FALSE, FALSE, FALSE)
    /\ UNCHANGED << isLoading, is_complete, authPc >>
    /\ UNCHANGED signInVars
    /\ UNCHANGED exceptRouteVars

\* a Link of the page in view, or a step in the browser's history; the user
\* acts after the first render's effects have run
FollowLink(to) ==
    /\ authPc # "mount"
    /\ to # route
    /\ view \in {"public", "children"}
    /\ Navigate("link", to)
    /\ Render(to, isLoading, token, onboardingComplete, FALSE, FALSE)
    /\ UNCHANGED << isLoading, token, onboardingComplete, localStorage,
                    is_complete, authPc, accepted >>
    /\ UNCHANGED signInVars
    /\ UNCHANGED exceptRouteVars

\* the browser loads the application at a path: AuthProvider is constructed,
\* requests in flight are gone, and of the stored entries those are found
\* that nothing outside the application has removed since
Reload(to) ==
    /\ route' = to
    /\ isLoading' = TRUE
    /\ token' = None
    /\ onboardingComplete' = FALSE
    /\ authPc' = "mount"
    /\ nav' = NoNav
    /\ accepted' = FALSE
    /\ loginPc' = "idle"
    /\ signIn' = NoSignIn
    /\ \E found \in SUBSET localStorage : localStorage' = found
    /\ Render(to, TRUE, None, FALSE, FALSE, FALSE)
    /\ UNCHANGED is_complete
    /\ UNCHANGED exceptRouteVars

\* ProtectedRoute's effect redirecting whatever isLoading is
ProtectedRouteEffectWhileLoading ==
    /\ route \in ProtectedPaths
    /\ effectDue
    /\ IF token = None
       THEN Navigate("ProtectedRoute", "/signin")
       ELSE IF requireOnboarding(route) /\ ~onboardingComplete
       THEN Navigate("ProtectedRoute", "/onboarding")
       ELSE UNCHANGED << route, nav >>
    /\ Render(route', isLoading, token, onboardingComplete, FALSE, hasChecked)
    /\ UNCHANGED << isLoading, token, onboardingComplete, localStorage,
                    is_complete, authPc, accepted >>
    /\ UNCHANGED signInVars
    /\ UNCHANGED exceptRouteVars

\* ProtectedRoute's effect
ProtectedRouteEffect ==
    /\ route \in ProtectedPaths
    /\ effectDue
    /\ IF isLoading
       THEN UNCHANGED << route, nav >>
       ELSE IF token = None
       THEN Navigate("ProtectedRoute", "/signin")
       ELSE IF requireOnboarding(route) /\ ~onboardingComplete
       THEN Navigate("ProtectedRoute", "/onboarding")
       ELSE UNCHANGED << route, nav >>
    /\ Render(route', isLoading, token, onboardingComplete, FALSE, hasChecked)
    /\ UNCHANGED << isLoading, token, onboardingComplete, localStorage,
                    is_complete, authPc, accepted >>
    /\ UNCHANGED signInVars
    /\ UNCHANGED exceptRouteVars

\* OnboardingPage's effect: checkOnboardingStatus
CheckOnboardingStatus ==
    /\ route = "/onboarding"
    /\ view = "children"
    /\ token # None
    /\ ~hasChecked
    /\ \E ok \in BOOLEAN :
        IF ok /\ is_complete
        THEN Navigate("OnboardingPage", "/dashboard")
        ELSE UNCHANGED << route, nav >>
    /\ Render(route', isLoading, token, onboardingComplete, effectDue, TRUE)
    /\ UNCHANGED << isLoading, token, onboardingComplete, localStorage,
                    is_complete, authPc, accepted >>
    /\ UNCHANGED signInVars
    /\ UNCHANGED exceptRouteVars

\* OnboardingPage.handleSubmit: POST /api/onboarding/complete
HandleSubmit ==
    /\ route = "/onboarding"
    /\ view = "children"
    /\ hasChecked
    /\ \E ok \in BOOLEAN :
        IF ok
        THEN /\ is_complete' = TRUE
             /\ accepted' = TRUE
             /\ Navigate("OnboardingPage", "/dashboard")
        ELSE UNCHANGED << is_complete, accepted, route, nav >>
    /\ Render(route', isLoading, token, onboardingComplete, effectDue, hasChecked)
    /\ UNCHANGED << isLoading, token, onboardingComplete, localStorage, authPc >>
    /\ UNCHANGED signInVars
    /\ UNCHANGED exceptRouteVars

NextRoute ==
    \/ AuthMount
    \/ CheckOnboardingWithToken
    \/ LoginStart
    \/ LoginStatus
    \/ Signup
    \/ Logout
    \/ \E to \in Paths : FollowLink(to)
    \/ \E to \in Paths : Reload(to)
    \/ ProtectedRouteEffect
    \/ CheckOnboardingStatus
    \/ HandleSubmit

SpecRoute == Init /\ [][NextRoute]_vars

(***************************************************************************)
(* MentorPage (pages/MentorPage.tsx): the journal input, handleSubmit and  *)
(* the sendMessage requests it has in flight.                              *)
(***************************************************************************)

\* the page is followed up to this many reflections
MaxReflections == 6

\* the characters trim() removes, of those the model uses
WhiteSpace == {" ", "\t", "\n", "\r"}

RECURSIVE TrimStart(_)
TrimStart(s) ==
    IF s = <<>> THEN s
    ELSE IF Head(s) \in WhiteSpace THEN TrimStart(Tail(s)) ELSE s

RECURSIVE TrimEnd(_)
TrimEnd(s) ==
    IF s = <<>> THEN s
    ELSE IF s[Len(s)] \in WhiteSpace THEN TrimEnd(SubSeq(s, 1, Len(s) - 1)) ELSE s

\* String.prototype.trim
Trim(s) == TrimEnd(TrimStart(s))

\* what the user can have typed
MentorInputs == { <<>>, << " " >>, << "h", "i" >>, << " ", "o", "k", " " >> }

\* setInput(e.target.value)
TypeInput(text) ==
    /\ text # input
    /\ input' = text
    /\ UNCHANGED << isReflecting, inFlight, reflections >>
    /\ UNCHANGED exceptMentorVars

\* handleSubmit, up to its await of sendMessage
SubmitThought ==
    /\ Trim(input) # <<>>
    /\ Len(reflections) + inFlight < MaxReflections - 1
    /\ reflections' = Append(reflections, [type |-> "thought", content |-> input])
    /\ input' = <<>>
    /\ isReflecting' = TRUE
    /\ inFlight' = inFlight + 1
    /\ UNCHANGED exceptMentorVars

\* the Share button: disabled={!input.trim() || isReflecting}
ClickShare ==
    /\ ~(Trim(input) = <<>> \/ isReflecting)
    /\ SubmitThought

\* onKeyDown of the textarea: e.key === "Enter" && !e.shiftKey
PressEnter(shiftKey) ==
    /\ ~shiftKey
    /\ SubmitThought

\* handleSubmit from the answer of sendMessage on: the guidance, or the
\* fixed text of the catch block, then finally
SendMessageSettles ==
    /\ inFlight > 0
    /\ \E ok \in BOOLEAN :
        reflections' = Append(reflections,
            [type |-> "guidance",
             content |-> IF ok THEN "result.response" ELSE PageErrorText.mentor])
    /\ inFlight' = inFlight - 1
    /\ isReflecting' = FALSE
    /\ UNCHANGED input
    /\ UNCHANGED exceptMentorVars

NextMentor ==
    \/ \E text \in MentorInputs : TypeInput(text)
    \/ ClickShare
    \/ \E shiftKey \in BOOLEAN : PressEnter(shiftKey)
    \/ SendMessageSettles

SpecMentor == Init /\ [][NextMentor]_vars

(***************************************************************************)
(* ConversationSpace (components/ConversationSpace.tsx): handleSubmit, the *)
(* event stream the chat function passes through from the Gateway, and the *)
(* loop that assembles the assistant text from it.  Text is a sequence of  *)
(* characters; a chunk is any non-empty piece of the bytes still to come.  *)
(***************************************************************************)

\* messages followed per run, and the longest chunk a read returns
MaxStored == 2
MaxAssembled == 2
MaxConvTurns == 2
MaxChunk == 40

StartsWith(s, p) == Len(s) >= Len(p) /\ SubSeq(s, 1, Len(p)) = p

\* String.prototype.indexOf for one character, counted from 1; 0 for none
IndexOf(s, c) ==
    IF \E i \in 1..Len(s) : s[i] = c
    THEN CHOOSE i \in 1..Len(s) : s[i] = c /\ \A j \in 1..(i - 1) : s[j] # c
    ELSE 0

DataPrefix == << "d", "a", "t", "a", ":", " " >>
DoneText == << "[", "D", "O", "N", "E", "]" >>

\* the characters of a delta's content as a JSON string has them
RECURSIVE JsonEscape(_)
JsonEscape(s) ==
    IF s = <<>> THEN <<>>
    ELSE (CASE Head(s) = "\n" -> << "\\", "n" >>
            [] Head(s) = "\\" -> << "\\", "\\" >>
            [] OTHER -> << Head(s) >>) \o JsonEscape(Tail(s))

\* the JSON of one event, {"choices":[{"delta":{"content":...}}]}, reduced
\* to its braces and the content's string
JsonOf(content) == << "{" >> \o JsonEscape(content) \o << "}" >>

\* the inside of a JSON string is well formed: no raw control character,
\* no backslash without its character
RECURSIVE JsonStringOk(_)
JsonStringOk(s) ==
    IF s = <<>> THEN TRUE
    ELSE IF Head(s) = "\\"
         THEN Len(s) >= 2 /\ s[2] \in {"n", "\\"} /\ JsonStringOk(Tail(Tail(s)))
         ELSE Head(s) \notin {"\n", "\r", "{", "}"} /\ JsonStringOk(Tail(s))

RECURSIVE JsonUnescape(_)
JsonUnescape(s) ==
    IF s = <<>> THEN <<>>
    ELSE IF Head(s) = "\\"
         THEN << (IF s[2] = "n" THEN "\n" ELSE "\\") >> \o JsonUnescape(Tail(Tail(s)))
         ELSE << Head(s) >> \o JsonUnescape(Tail(s))

\* JSON.parse(jsonStr) and parsed.choices?.[0]?.delta?.content
JsonParse(jsonStr) ==
    IF /\ Len(jsonStr) >= 2
       /\ Head(jsonStr) = "{"
       /\ jsonStr[Len(jsonStr)] = "}"
       /\ JsonStringOk(SubSeq(jsonStr, 2, Len(jsonStr) - 1))
    THEN [ok |-> TRUE, content |-> JsonUnescape(SubSeq(jsonStr, 2, Len(jsonStr) - 1))]
    ELSE [ok |-> FALSE, content |-> <<>>]

\* the lines of an event stream
DataLine(content) == [kind |-> "data", content |-> content]
DoneLine == [kind |-> "done", content |-> <<>>]
CommentLine == [kind |-> "comment", content |-> <<>>]
BlankLine == [kind |-> "blank", content |-> <<>>]

LineText(ev) ==
    CASE ev.kind = "data" -> DataPrefix \o JsonOf(ev.content)
      [] ev.kind = "done" -> DataPrefix \o DoneText
      [] ev.kind = "comment" -> << ":", " ", "k" >>
      [] ev.kind = "blank" -> <<>>

\* line ends of the stream
Eols == { << "\n" >>, << "\r", "\n" >> }

\* the bytes of a stream of lines
RECURSIVE Bytes(_, _)
Bytes(evs, eol) ==
    IF evs = <<>> THEN <<>>
    ELSE LineText(Head(evs)) \o eol \o Bytes(Tail(evs), eol)

\* the delta contents of the data lines that precede the [DONE] line
RECURSIVE Deltas(_)
Deltas(evs) ==
    IF evs = <<>> \/ Head(evs).kind = "done" THEN <<>>
    ELSE Head(evs).content \o Deltas(Tail(evs))

\* well-formed streams: events, each followed by a blank line or not,
\* comments, a delta without content, a content with a line break in it,
\* and [DONE] as the last event
EventStreams ==
    { << DataLine(<< "a" >>), BlankLine, DataLine(<< "b" >>), BlankLine,
         DoneLine, BlankLine >>,
      << CommentLine, DataLine(<<>>), BlankLine, DataLine(<< "a", "\n" >>),
         DataLine(<< "b" >>), DoneLine, BlankLine >>,
      << DoneLine, BlankLine >> }

\* The inner loop without its carry: what is left of the buffer after the
\* last complete line is thrown away instead of kept for the next chunk.
RECURSIVE ProcessLinesNoCarry(_, _)
ProcessLinesNoCarry(buf, content) ==
    LET newlineIndex == IndexOf(buf, "\n")
    IN  IF newlineIndex = 0
        THEN [textBuffer |-> <<>>, assistantContent |-> content]
        ELSE LET raw == SubSeq(buf, 1, newlineIndex - 1)
                 rest == SubSeq(buf, newlineIndex + 1, Len(buf))
                 line == IF raw # <<>> /\ raw[Len(raw)] = "\r"
                         THEN SubSeq(raw, 1, Len(raw) - 1) ELSE raw
                 jsonStr == Trim(SubSeq(line, 7, Len(line)))
                 parsed == JsonParse(jsonStr)
             IN  IF StartsWith(line, << ":" >>) \/ Trim(line) = <<>>
                 THEN ProcessLinesNoCarry(rest, content)
                 ELSE IF ~StartsWith(line, DataPrefix)
                 THEN ProcessLinesNoCarry(rest, content)
                 ELSE IF jsonStr = DoneText
                 THEN [textBuffer |-> rest, assistantContent |-> content]
                 ELSE IF parsed.ok
                 THEN ProcessLinesNoCarry(rest, content \o parsed.content)
                 ELSE [textBuffer |-> line \o << "\n" >> \o rest,
                       assistantContent |-> content]

\* the inner loop of handleSubmit: while ((newlineIndex =
\* textBuffer.indexOf("\n")) !== -1) { ... }
RECURSIVE ProcessLines(_, _)
ProcessLines(buf, content) ==
    LET newlineIndex == IndexOf(buf, "\n")
    IN  IF newlineIndex = 0
        THEN [textBuffer |-> buf, assistantContent |-> content]
        ELSE LET raw == SubSeq(buf, 1, newlineIndex - 1)
                 rest == SubSeq(buf, newlineIndex + 1, Len(buf))
                 line == IF raw # <<>> /\ raw[Len(raw)] = "\r"
                         THEN SubSeq(raw, 1, Len(raw) - 1) ELSE raw
                 jsonStr == Trim(SubSeq(line, 7, Len(line)))
                 parsed == JsonParse(jsonStr)
             IN  IF StartsWith(line, << ":" >>) \/ Trim(line) = <<>>
                 THEN ProcessLines(rest, content)
                 ELSE IF ~StartsWith(line, DataPrefix)
                 THEN ProcessLines(rest, content)
                 ELSE IF jsonStr = DoneText
                 THEN [textBuffer |-> rest, assistantContent |-> content]
                 ELSE IF parsed.ok
                 THEN ProcessLines(rest, content \o parsed.content)
                 ELSE [textBuffer |-> line \o << "\n" >> \o rest,
                       assistantContent |-> content]

ConvEvent(op, content) == [op |-> op, content |-> content]

\* handleSubmit up to `await saveMessage("user", userMessage)`
ConvSubmit(text) ==
    /\ ~(Trim(text) = <<>> \/ convPc # "idle")
    /\ convTurns < MaxConvTurns
    /\ convTurns' = convTurns + 1
    /\ convLog' = << ConvEvent("save_user", Trim(text)) >>
    /\ convPc' = "save_user"
    /\ wire' = <<>>
    /\ textBuffer' = <<>>
    /\ assistantContent' = <<>>
    /\ events' = <<>>
    /\ UNCHANGED exceptConvVars

\* The reply requested without waiting for the save of the user message.
SaveUserSettlesAfterFetch ==
    /\ convPc = "save_user"
    /\ convLog' = convLog \o << ConvEvent("fetch", <<>>),
                               ConvEvent("save_user_done", <<>>) >>
    /\ convPc' = "fetch"
    /\ UNCHANGED << wire, textBuffer, assistantContent, events, convTurns >>
    /\ UNCHANGED exceptConvVars

\* saveMessage("user") settles, stored or not; then the fetch is sent
SaveUserSettles ==
    /\ convPc = "save_user"
    /\ convLog' = convLog \o << ConvEvent("save_user_done", <<>>),
                               ConvEvent("fetch", <<>>) >>
    /\ convPc' = "fetch"
    /\ UNCHANGED << wire, textBuffer, assistantContent, events, convTurns >>
    /\ UNCHANGED exceptConvVars

\* the catch block and finally
ConvCatch ==
    /\ convLog' = Append(convLog, ConvEvent("error", PageErrorText.conversation))
    /\ convPc' = "idle"
    /\ UNCHANGED << wire, textBuffer, assistantContent, events, convTurns >>
    /\ UNCHANGED exceptConvVars

\* the fetch rejects, or answers with an error status or without a body
FetchFails ==
    /\ convPc = "fetch"
    /\ ConvCatch

\* the fetch answers with the event stream
FetchStreams(evs, eol) ==
    /\ convPc = "fetch"
    /\ events' = evs
    /\ wire' = Bytes(evs, eol)
    /\ textBuffer' = <<>>
    /\ assistantContent' = <<>>
    /\ convPc' = "stream"
    /\ UNCHANGED << convLog, convTurns >>
    /\ UNCHANGED exceptConvVars

\* reader.read() returns a chunk of n bytes, and the inner loop runs
ReadChunk(n) ==
    /\ convPc = "stream"
    /\ n \in 1..Len(wire)
    /\ LET value == SubSeq(wire, 1, n)
           after == ProcessLines(textBuffer \o value, assistantContent)
       IN  /\ textBuffer' = after.textBuffer
           /\ assistantContent' = after.assistantContent
    /\ wire' = SubSeq(wire, n + 1, Len(wire))
    /\ UNCHANGED << convPc, events, convLog, convTurns >>
    /\ UNCHANGED exceptConvVars

\* reader.read() rejects: the connection broke
ReadThrows ==
    /\ convPc = "stream"
    /\ ConvCatch

\* reader.read() returns done; the assistant message is saved if there is one
ReadDone ==
    /\ convPc = "stream"
    /\ wire = <<>>
    /\ IF assistantContent # <<>>
       THEN /\ convLog' = convLog \o << ConvEvent("stream_end", <<>>),
                                       ConvEvent("save_assistant", assistantContent) >>
            /\ convPc' = "save_assistant"
       ELSE /\ convLog' = Append(convLog, ConvEvent("stream_end", <<>>))
            /\ convPc' = "idle"
    /\ UNCHANGED << wire, textBuffer, assistantContent, events, convTurns >>
    /\ UNCHANGED exceptConvVars

\* saveMessage("assistant") settles, then finally
SaveAssistantSettles ==
    /\ convPc = "save_assistant"
    /\ convLog' = Append(convLog, ConvEvent("save_assistant_done", <<>>))
    /\ convPc' = "idle"
    /\ UNCHANGED << wire, textBuffer, assistantContent, events, convTurns >>
    /\ UNCHANGED exceptConvVars

NextConv ==
    \/ \E text \in MentorInputs : ConvSubmit(text)
    \/ SaveUserSettles
    \/ FetchFails
    \/ \E evs \in EventStreams, eol \in Eols : FetchStreams(evs, eol)
    \/ \E n \in 1..MaxChunk : ReadChunk(n)
    \/ ReadThrows
    \/ ReadDone
    \/ SaveAssistantSettles

SpecConv == Init /\ [][NextConv]_vars

(***************************************************************************)
(* The user_memory documents: signup, onboarding, the Memory Agent.        *)
(***************************************************************************)
\* A Memory Agent that starts from a default document on every load.
get_user_memory_fresh(stored, doc) ==
    DefaultUserMemory

\* The document the Memory Agent works on for a user: the stored one, or a
\* default one when the user has none.
get_user_memory(stored, doc) ==
    IF stored THEN doc ELSE DefaultUserMemory

\* POST /signup, first half: the user document
CreateUserDoc(u) ==
    /\ u \notin users
    /\ users' = users \cup {u}
    /\ UNCHANGED << memoryDocs, memoryOf, assembled, createdBy >>
    /\ UNCHANGED exceptUserMemVars

\* POST /signup, second half: Initialize UserMemory (onboarding.is_complete=false)
InitializeUserMemory(u) ==
    /\ u \in users
    /\ u \notin memoryDocs
    /\ createdBy[u] = None
    /\ memoryDocs' = memoryDocs \cup {u}
    /\ memoryOf' = [memoryOf EXCEPT ![u] = DefaultUserMemory]
    /\ createdBy' = [createdBy EXCEPT ![u] = "signup"]
    /\ UNCHANGED << users, assembled >>
    /\ UNCHANGED exceptUserMemVars

\* Onboarding: Update UserMemory.onboarding, set is_complete=true
CompleteOnboarding(u) ==
    /\ u \in memoryDocs
    /\ ~memoryOf[u].is_complete
    /\ memoryOf' = [memoryOf EXCEPT ![u].is_complete = TRUE]
    /\ UNCHANGED << users, memoryDocs, assembled, createdBy >>
    /\ UNCHANGED exceptUserMemVars

\* store_interaction(...): progress.total_interactions counts one more
StoreInteraction(u) ==
    /\ u \in memoryDocs
    /\ memoryOf[u].total_interactions < MaxStored
    /\ memoryOf' = [memoryOf EXCEPT ![u].total_interactions = @ + 1]
    /\ UNCHANGED << users, memoryDocs, assembled, createdBy >>
    /\ UNCHANGED exceptUserMemVars

\* user_context = await self.memory_agent.get_user_context(user_id): for a
\* user with no user_memory document the Memory Agent creates the default one.
GetUserContextOf(u) ==
    /\ u \in users
    /\ assembled[u] < MaxAssembled
    /\ memoryDocs' = memoryDocs \cup {u}
    /\ memoryOf' = [memoryOf EXCEPT
                      ![u] = get_user_memory(u \in memoryDocs, memoryOf[u])]
    /\ createdBy' = [createdBy EXCEPT
                       ![u] = IF u \in memoryDocs THEN @ ELSE "get_user_context"]
    /\ assembled' = [assembled EXCEPT ![u] = @ + 1]
    /\ UNCHANGED users
    /\ UNCHANGED exceptUserMemVars

NextUserMem ==
    \E u \in UserIds :
        \/ CreateUserDoc(u)
        \/ InitializeUserMemory(u)
        \/ CompleteOnboarding(u)
        \/ StoreInteraction(u)
        \/ GetUserContextOf(u)

SpecUserMem == Init /\ [][NextUserMem]_vars


(***************************************************************************)
(* Properties.                                                             *)
(***************************************************************************)

\* C1 - Fail-safe invariant: every evaluation committed for a turn whose
\* user message holds an explicit-confusion marker has, whatever the Gateway
\* returned (a high score, a low score, a failure), a clarity_score no
\* larger than the previous clarity the evaluation was given, an
\* understanding_delta <= 0, a confusion_trend other than "improving" and a
\* struggle recorded.
C1_FailsafeInvariant ==
    \A k \in 1..Len(evalLog) :
        evalLog[k].confused =>
            LET e == evalLog[k].e
            IN  /\ e.clarity_score <= evalLog[k].prev
                /\ e.understanding_delta <= 0
                /\ e.confusion_trend # "improving"
                /\ e.struggle_detected # None

\* a confused turn for which the Gateway scored above the previous clarity
\* and reported no struggle has been committed, capped
C1_Witness ==
    \E k \in 1..Len(evalLog) :
        /\ evalLog[k].confused
        /\ evalLog[k].gateway.ok
        /\ evalLog[k].gateway.out.clarity_score > evalLog[k].prev
        /\ evalLog[k].gateway.out.struggle_detected = None
        /\ evalLog[k].e.clarity_score = evalLog[k].prev
        /\ evalLog[k].e \in { evaluation_history[i] : i \in 1..Len(evaluation_history) }

\* C2 - Reply before evaluation: whenever the evaluation of a request has
\* been written to the store, the handler of that request has already
\* returned its reply; no request stands waiting while its evaluation is
\* being made or written.
C2_ReplyBeforeEvaluation ==
    \A r \in Reqs :
        /\ (\E k \in 1..Len(evalLog) : evalLog[k].req = r) =>
               /\ pc[r] \in {"returned", "dropped"}
               /\ outcome[r] = "reply"
        /\ bgpc[r] \in BgSteps => pc[r] \in {"returned", "dropped"}

\* a request holds its reply and its evaluation was written after that
C2_Witness ==
    \E r \in Reqs :
        /\ pc[r] = "returned"
        /\ outcome[r] = "reply"
        /\ Len(reply[r]) > 0
        /\ \E k \in 1..Len(evalLog) : evalLog[k].req = r

\* C3 - Graceful degradation: a request whose user message was persisted
\* and whose Gateway calls (Planner and Generator) both failed still returns
\* a reply, and the reply text is not empty.
C3_GracefulDegradation ==
    \A r \in Reqs :
        (/\ gw[r].plan = "failed"
         /\ gw[r].generate = "failed"
         /\ pc[r] \in {"returned", "dropped"}) =>
            /\ outcome[r] = "reply"
            /\ Len(reply[r]) > 0

\* a request has returned the fallback text after both Gateway calls failed
C3_Witness ==
    \E r \in Reqs :
        /\ gw[r].plan = "failed"
        /\ gw[r].generate = "failed"
        /\ pc[r] = "returned"
        /\ [sender |-> "user", req |-> r] \in chatLog
        /\ reply[r] = FALLBACK_RESPONSE

\* C4 - History monotonicity under confusion: in evaluation_history, an
\* entry committed for an explicitly confused turn has a clarity_score no
\* larger than the entry right before it, also when the previous clarity was
\* read before an evaluation of another turn was committed.
C4_HistoryMonotone ==
    \A k \in 2..Len(evaluation_history) :
        evalLog[evaluation_history[k].seq].confused =>
            evaluation_history[k].clarity_score
                <= evaluation_history[k - 1].clarity_score

\* C5 - Write acknowledgement ordering: within one request, the write of the
\* user message is acknowledged before the write of the mentor message is
\* issued, and the write of the mentor message is acknowledged before the
\* write of the evaluation is issued.
C5_WriteOrdering ==
    \A r \in Reqs :
        LET t == trace[r]
            At(ev) == { i \in 1..Len(t) : t[i] = ev }
        IN  /\ \A j \in At("mentor_issue") : \E i \in At("user_ack") : i < j
            /\ \A j \in At("eval_issue") : \E i \in At("mentor_ack") : i < j

\* a request has made its three writes
C5_Witness ==
    \E r \in Reqs :
        trace[r] = << "user_issue", "user_ack", "mentor_issue", "mentor_ack",
                      "eval_issue" >>

\* C6 - Bounded FIFO history: after any number n of appends,
\* evaluation_history holds exactly the most recent min(n, 20) evaluations
\* and session_dates exactly the most recent min(n, 100) dates, each in the
\* order of commit.
C6_BoundedFifo ==
    LET n == Len(evalLog)
        d == Len(dateLog)
        keptEvals == IF n > EVAL_HISTORY_CAP THEN EVAL_HISTORY_CAP ELSE n
        keptDates == IF d > SESSION_DATES_CAP THEN SESSION_DATES_CAP ELSE d
    IN  /\ Len(evaluation_history) = keptEvals
        /\ \A i \in 1..keptEvals :
               evaluation_history[i] = evalLog[n - keptEvals + i].e
        /\ Len(session_dates) = keptDates
        /\ \A i \in 1..keptDates :
               session_dates[i] = dateLog[d - keptDates + i]

\* both arrays have been appended to beyond their caps, so both have evicted
C6_Witness ==
    /\ Len(evalLog) > EVAL_HISTORY_CAP + 1
    /\ Len(dateLog) > SESSION_DATES_CAP + 1
    /\ evaluation_history[1].seq = Len(evalLog) - EVAL_HISTORY_CAP + 1
    /\ session_dates[1] = Len(dateLog) - SESSION_DATES_CAP + 1

\* C7 - Verbosity line limit: the text the Generator hands to the
\* orchestrator has at most 4, 6 or 8 lines for the verbosity brief, normal
\* or detailed of its Strategy, whatever the Gateway returned.
C7_VerbosityEnforced ==
    \A r \in Reqs :
        pc[r] = "save_mentor" =>
            Len(response[r]) <= MaxLines(strategy[r].verbosity)

C9_CancelKeepsEvaluation ==
    \A r \in Reqs :
        (cancelled[r] /\ bgStarts[r] > 0) =>
            /\ bgpc[r] \in BgSteps \cup {"settled"}
            /\ (bgpc[r] = "settled" /\ ~bgFailed[r]) =>
                   \E k \in 1..Len(evalLog) : evalLog[k].req = r

\* a request was cancelled while its background task had not yet evaluated,
\* and the task has run to its end and written the evaluation
C9_Witness ==
    \E r \in Reqs :
        /\ cancelled[r]
        /\ pc[r] = "dropped"
        /\ bgpc[r] = "settled"
        /\ ~bgFailed[r]
        /\ \E k \in 1..Len(evalLog) : evalLog[k].req = r

\* C10 - Background failure isolation: a failure of the background task is
\* never retried (the task is started once and ends at the failure), never
\* changes the reply the request returned nor turns it into an error, and
\* never keeps another request of the user from taking its next step.
C10_BackgroundFailureIsolated ==
    /\ [][\A r \in Reqs :
             (bgFailed'[r] /\ ~bgFailed[r]) =>
                 /\ reply' = reply
                 /\ outcome' = outcome
                 /\ pc' = pc
                 /\ storeFailed' = storeFailed
                 /\ chatLog' = chatLog]_vars
    /\ [](\A r \in Reqs :
             bgFailed[r] =>
                 /\ bgStarts[r] = 1
                 /\ bgpc[r] = "settled"
                 /\ outcome[r] = "reply"
                 /\ Len(reply[r]) > 0
                 /\ \A q \in Reqs \ {r} :
                        /\ pc[q] = "idle" => ENABLED Submit(q, 1)
                        /\ pc[q] = "save_user" => ENABLED SaveUserMessage(q)
                        /\ pc[q] = "get_context" => ENABLED GetUserContext(q)
                        /\ pc[q] = "get_recent" => ENABLED FormatContext(q)
                        /\ pc[q] = "plan" => ENABLED Plan(q)
                        /\ pc[q] = "generate" => ENABLED Generate(q)
                        /\ pc[q] = "save_mentor" => ENABLED SaveMentorAndReturn(q))

\* the background task of one request has failed, the request keeps its
\* reply, and another request of the user has completed with its evaluation
C10_Witness ==
    \E r \in Reqs :
        /\ bgFailed[r]
        /\ outcome[r] = "reply"
        /\ Len(reply[r]) > 0
        /\ \E q \in Reqs \ {r} :
               /\ outcome[q] = "reply"
               /\ bgpc[q] = "settled"
               /\ ~bgFailed[q]
               /\ \E k \in 1..Len(evalLog) : evalLog[k].req = q

\* C11 - Unconfused turns are committed unmodified: when the user message
\* holds no explicit-confusion marker and the Gateway returned an
\* evaluation, the committed result equals the Gateway output in every
\* field (previous clarity 50, Gateway 65 / +15 / improving is committed as
\* exactly that).
C11_UnconfusedUnmodified ==
    \A k \in 2..Len(evalLog) :
        (~evalLog[k].confused /\ evalLog[k].gateway.ok) =>
            LET e == evalLog[k].e
                g == evalLog[k].gateway.out
            IN  /\ e.clarity_score = g.clarity_score
                /\ e.understanding_delta = g.understanding_delta
                /\ e.confusion_trend = g.confusion_trend
                /\ e.struggle_detected = g.struggle_detected
                /\ e.reasoning = g.reasoning
                /\ evaluation_history[Len(evaluation_history)] = e

\* the genuine-progress turn: previous clarity 50, no marker, Gateway
\* 65 / +15 / improving, committed as it came
C11_Witness ==
    \E k \in 2..Len(evalLog) :
        /\ ~evalLog[k].confused
        /\ evalLog[k].prev = 50
        /\ evalLog[k].gateway = GwOk([clarity_score |-> 65, understanding_delta |-> 15,
                                      confusion_trend |-> "improving",
                                      struggle_detected |-> None,
                                      reasoning |-> <<"model reasoning">>])
        /\ evalLog[k].e.clarity_score = 65
        /\ evalLog[k].e.understanding_delta = 15
        /\ evalLog[k].e.confusion_trend = "improving"

C14_NoRawErrorText ==
    \A ch \in Channels :
        /\ \A i \in 1..Len(shown[ch]) : shown[ch][i] \notin RawErrorTexts
        /\ \A i \in 1..Len(httpResp[ch].body) :
               httpResp[ch].body[i] \notin RawErrorTexts

\* C15 - Field-level writes: writers that update different fields of one
\* user document never undo each other; every acknowledged evaluation
\* append and every acknowledged profile update is present in the document,
\* in whatever order the writers read and wrote.
C15_FieldLevelWrites ==
    /\ \A u \in writeLog : u.value \in profile[u.field]
    /\ \A k \in 1..Len(evalLog) :
           \E i \in 1..Len(evaluation_history) :
               evaluation_history[i] = evalLog[k].e

\* a profile update written after an evaluation was appended behind the
\* writer's back, and an evaluation appended after a profile update the
\* evaluation's writer had not read: all of them present
C15_Witness ==
    /\ \E u \in writeLog : u.stale /\ u.value \in profile[u.field]
    /\ wrote["evaluation"] > 0
    /\ wpc["evaluation"] = "idle"
    /\ wsnap["evaluation"].profile # profile
    /\ wrote = [w \in Writers |-> MaxWrites]
    /\ Len(evaluation_history) = 1 + MaxWrites

\* C16 - The dashboard is read-only: a step that computes the dashboard
\* response leaves the user's stored content as it was (evaluation history,
\* session dates, counters, effort metrics, profile, chat messages), for
\* every stored state it is computed from.
C16_InsightReadOnly ==
    [][dashboard' # dashboard =>
          /\ UNCHANGED << evaluation_history, session_dates, total_interactions,
                          struggles, traits >>
          /\ UNCHANGED << total_sessions, profile, chatLog >>]_vars

\* the dashboard has been computed from a stored evaluation and a session
\* count, both still as they were
C16_Witness ==
    /\ dashboard.state \notin {None, "starting"}
    /\ evaluation_history # <<>>
    /\ dashboard.metrics.clarity_score =
           evaluation_history[Len(evaluation_history)].clarity_score
    /\ total_sessions > 0
    /\ dashboard.metrics.total_sessions = total_sessions

\* C17 - ProtectedRoute renders its children only when auth loading has
\* finished, the user is authenticated and (requireOnboarding is false or
\* onboarding is complete); every redirect it makes was made with loading
\* finished, to /signin exactly when the user was not authenticated and to
\* /onboarding exactly when the user was authenticated with onboarding
\* incomplete; and once loading has finished, a guarded page whose user is
\* not authenticated, or whose required onboarding is incomplete, has the
\* guard's redirect due.
C17_RouteGuard ==
    /\ view = "children" =>
        /\ route \in ProtectedPaths
        /\ ~isLoading
        /\ token # None
        /\ (~requireOnboarding(route) \/ onboardingComplete)
    /\ nav.by = "ProtectedRoute" =>
        /\ ~nav.loading
        /\ (nav.to = "/signin") = ~nav.authenticated
        /\ (nav.to = "/onboarding") = (nav.authenticated /\ ~nav.complete)
    /\ (/\ route \in ProtectedPaths
        /\ ~isLoading
        /\ (token = None \/ (requireOnboarding(route) /\ ~onboardingComplete)))
       => (view = "null" /\ effectDue)

\* the guard has sent an authenticated user with incomplete onboarding to
\* /onboarding, where the page is rendered
C17_Witness ==
    /\ nav.by = "ProtectedRoute"
    /\ nav.to = "/onboarding"
    /\ route = "/onboarding"
    /\ view = "children"
    /\ ~onboardingComplete

\* C18 - After the backend has accepted the onboarding answers the user
\* arrives at /dashboard and stays there with the page rendered: the route
\* guard does not send that user back to /onboarding, and /dashboard, once
\* the guard's effect has run, shows the page.
C18_StaysOnDashboard ==
    accepted =>
        /\ ~(nav.by = "ProtectedRoute" /\ nav.to = "/onboarding")
        /\ (route = "/dashboard" /\ ~effectDue) => view = "children"

\* C19 - Whenever an explicit-confusion marker matched, the reasoning of the
\* committed evaluation carries the fail-safe tag, also when the Gateway's
\* clarity_score was not above the previous clarity and no score was capped.
C19_FailsafeTagged ==
    \A k \in 1..Len(evalLog) :
        evalLog[k].confused =>
            \E i \in 1..Len(evalLog[k].e.reasoning) :
                evalLog[k].e.reasoning[i] = FAILSAFE_TAG

C23_CompleteImpliesToken ==
    onboardingComplete => token # None

\* C28 - Once AuthProvider has run its mount effect, isAuthenticated is true
\* exactly when localStorage holds auth_token, after any sequence of login,
\* signup and logout and for any stored content found at mount.
C28_StateAgreesWithStorage ==
    authPc # "mount" => ((token # None) = ("auth_token" \in localStorage))

\* C24 - MentorPage never has two sendMessage requests in flight at once:
\* while a reply is pending no further message can be submitted, neither
\* with the Share button nor with the Enter key.
C24_OneRequestInFlight ==
    /\ inFlight <= 1
    /\ inFlight > 0 => isReflecting

\* C29 - For each message submitted in ConversationSpace the AI reply is
\* requested only after the save of the user message has completed, and an
\* assistant message is saved at most once, only right after the stream
\* ended, with no error before it, and only with the complete non-empty
\* text of the stream.
C29_SaveOrdering ==
    LET At(op) == { i \in 1..Len(convLog) : convLog[i].op = op }
    IN  /\ convLog # <<>> => convLog[1].op = "save_user"
        /\ \A i \in At("fetch") : \E j \in At("save_user_done") : j < i
        /\ Cardinality(At("save_assistant")) <= 1
        /\ \A i \in At("save_assistant") :
            /\ i > 1
            /\ convLog[i - 1].op = "stream_end"
            /\ \A j \in At("error") : j > i
            /\ convLog[i].content # <<>>
            /\ convLog[i].content = Deltas(events)

\* a message whose reply a, b was streamed and saved
C29_Witness ==
    /\ convPc = "idle"
    /\ Len(convLog) = 6
    /\ convLog[2].op = "save_user_done"
    /\ convLog[3].op = "fetch"
    /\ convLog[4].op = "stream_end"
    /\ convLog[5] = ConvEvent("save_assistant", << "a", "b" >>)
    /\ convLog[6].op = "save_assistant_done"

\* C30 - For a well-formed event stream the assistant text assembled is at
\* every moment a prefix of, and once all bytes are read equal to, the
\* concatenation in order of the delta contents of the data lines that
\* precede the [DONE] line, however the bytes are split into chunks.
C30_AssembledText ==
    convPc = "stream" =>
        /\ Len(assistantContent) <= Len(Deltas(events))
        /\ assistantContent = SubSeq(Deltas(events), 1, Len(assistantContent))
        /\ wire = <<>> => assistantContent = Deltas(events)

\* a chunk has ended in the middle of a line: the text of the lines before
\* it is assembled, the piece of the line waits in the buffer
C30_Witness ==
    /\ convPc = "stream"
    /\ assistantContent = << "a", "\n" >>
    /\ textBuffer = << "d", "a", "t", "a", ":", " ", "{" >>
    /\ wire # <<>>

\* C22 - Each request moves through RECEIVED, CONTEXT_READY, STRATEGY_READY,
\* RESPONSE_READY, EVALUATING, SETTLED one state at a time, never back and
\* never past a state, and leaves this order only by the handler's
\* exception path or a cancellation before its reply.  The Planner is
\* called only with the context assembled, the Generator only after the
\* Planner returned, and the evaluation runs only with the mentor response
\* persisted.
C22_StateOrder ==
    /\ [](\A r \in Reqs :
            /\ pc[r] = "plan" => ctx[r].recent_chat
            /\ pc[r] = "generate" => gw[r].plan # "none"
            /\ pc[r] = "save_mentor" => gw[r].generate # "none"
            /\ RequestState(r) \in {5, 6} =>
                   [sender |-> "mentor", req |-> r] \in chatLog)
    /\ [][\A r \in Reqs :
            \/ RequestState(r)' = RequestState(r)
            \/ RequestState(r) < 6 /\ RequestState(r)' = RequestState(r) + 1
            \/ RequestState(r) \in 1..4 /\ RequestState(r)' = 7
       ]_vars

\* a request has gone through all states: its reply is returned and its
\* evaluation committed
C22_Witness ==
    \E r \in Reqs :
        /\ RequestState(r) = 6
        /\ outcome[r] = "reply"
        /\ ~bgFailed[r]
        /\ trace[r][Len(trace[r])] = "eval_issue"
        /\ \E k \in 1..Len(evalLog) : evalLog[k].req = r

\* C25: a context assembly writes nothing: after get_user_context for a user,
\* with or without a user_memory document, the user_memory collection holds
\* what it held before.
C25_AssembleWritesNothing ==
    [][(assembled' # assembled)
          => (memoryDocs' = memoryDocs /\ memoryOf' = memoryOf)]_vars

\* C25, as the Memory Agent behaves: a context assembly leaves every stored
\* user_memory document as it was, and inserts the default document for a
\* user that had none.
C25_AssembleKeepsStoredDocuments ==
    [][\A u \in UserIds :
          (assembled'[u] # assembled[u])
              => /\ memoryDocs' = memoryDocs \cup {u}
                 /\ \A v \in memoryDocs : memoryOf'[v] = memoryOf[v]
                 /\ u \notin memoryDocs => memoryOf'[u] = DefaultUserMemory]_vars

C25_Witness ==
    \E u \in UserIds :
        /\ assembled[u] = 2
        /\ createdBy[u] = "signup"
        /\ memoryOf[u].total_interactions > 0
        /\ \E v \in UserIds : createdBy[v] = "get_user_context"

\* C26: with every Gateway call coming back (a value, a failure or a
\* timeout), a request whose reply was returned and whose background task is
\* running (EVALUATING) reaches SETTLED, whether the evaluation came from the
\* Gateway, from the default or the task failed; none stays in EVALUATING.
C26_EvaluatingLeadsToSettled ==
    \A r \in Reqs : (RequestState(r) = 5) ~> (RequestState(r) = 6)

C26_Witness ==
    /\ \A r \in Reqs : RequestState(r) = 6
    /\ bgFailed[1]
    /\ ~bgFailed[2]
    /\ \E i \in 1..Len(evalLog) : evalLog[i].req = 2 /\ ~evalLog[i].gateway.ok

\* C27: every evaluation in evaluation_history has a clarity_score that is an
\* integer from 0 to 100 and a confusion_trend among improving, stable and
\* worsening, whatever the Gateway returned and whatever the previous
\* clarity was.
C27_CommittedInRange ==
    \A i \in 1..Len(evaluation_history) :
        /\ evaluation_history[i].clarity_score \in 0..100
        /\ evaluation_history[i].confusion_trend
               \in {"improving", "stable", "worsening"}

====
